---- MODULE Spec2Model ----
(***************************************************************************)
(* A model of the llm-council frontend: the session controller of App.jsx  *)
(* (optimistic send, stream events reduced into the open conversation,     *)
(* rollback), the conversation loads that interleave with it, and the      *)
(* two-tier configuration store of api.js.                                  *)
(*                                                                         *)
(* React state is modelled as plain variables that a handler segment       *)
(* updates atomically: handlers run to completion between suspension       *)
(* points (every await), and queued updater functions are applied in the   *)
(* order they were enqueued, so each segment is one step.  Message objects *)
(* live in a heap, because the stream reducer writes through references.   *)
(* An updater that throws (a TypeError on null / undefined) is an uncaught *)
(* render error: React unmounts the tree, which ends the application.      *)
(***************************************************************************)
EXTENDS Integers, Sequences, FiniteSets, TLC

(* ---------------------------- bounds ----------------------------------- *)
\* sends issued in one run
MaxSends == 2
\* conversation loads started in one run
MaxLoads == 1
\* calls of handleSendMessage in one run
MaxCalls == 3
\* listConversations requests counted as in flight (saturating)
MaxListReqs == 1
\* operations of the configuration store in one run
MaxStoreOps == 10
\* calls of the model-selection handlers in one run
MaxSelOps == 3
\* fetchModels calls started in one run
MaxFetches == 2
\* lines of a stream
MaxLines == 3
\* rename and delete calls
MaxActions == 2
\* characters of an input text
MaxChars == 9
\* conversations selected one after the other while their loads are in flight
MaxOverlap == 3
\* createConversation requests issued in one run
MaxCreates == 2

(* ---------------------------- values ----------------------------------- *)
\* JavaScript null and undefined (an absent property)
Null == "null"
Undef == "undefined"

ConvIds == {"A", "B"}
Contents == {"x", "y"}
\* the payloads a stream can carry, by stage: results and ranking metadata
Stage1Payloads == {"p", "q"}
Stage2Payloads == {"r"}
Stage3Payloads == {"s"}
Metadatas == {"m"}
ApiKeys == {"sk1", "sk2"}
\* model ids; FALLBACK_DEFAULTS names four of them
ModelIds == {"a", "b", "c", "d"}

EventTypes ==
    {"stage1_start", "stage1_complete", "stage2_start", "stage2_complete",
     "stage3_start", "stage3_complete", "title_complete", "complete", "error",
     "other"}

\* The frames a stream can carry: `data` on *_complete, `metadata` on
\* stage2_complete; "other" stands for every unrecognized type.
Frame(type, data, metadata) == [type |-> type, data |-> data, metadata |-> metadata]

Frames ==
    {Frame(t, Undef, Undef) :
        t \in {"stage1_start", "stage2_start", "stage3_start", "title_complete",
               "complete", "error", "other"}}
    \cup {Frame("stage1_complete", d, Undef) : d \in Stage1Payloads}
    \cup {Frame("stage2_complete", d, m) : d \in Stage2Payloads, m \in Metadatas}
    \cup {Frame("stage3_complete", d, Undef) : d \in Stage3Payloads}

\* The frame sequence of a complete turn, in the order the server emits it.
CanonTypes ==
    <<"stage1_start", "stage1_complete", "stage2_start", "stage2_complete",
      "stage3_start", "stage3_complete", "complete">>

\* The server of a stream that has emitted the first `sent` frames of
\* CanonTypes may emit next: the following frame of that order, an `error`
\* frame (which is its last), or a title_complete / unrecognized frame.
\* After `complete` or `error` it emits nothing more.
ServerMayEmit(sent, errored, ev) ==
    /\ ~errored
    /\ sent < Len(CanonTypes)
    /\ \/ ev.type = CanonTypes[sent + 1]
       \/ ev.type \in {"error", "title_complete", "other"}

(* ---------------------------- messages --------------------------------- *)
Loading(a, b, c) == [present |-> TRUE, stage1 |-> a, stage2 |-> b, stage3 |-> c]
\* a message object without a `loading` property
NoLoading == [present |-> FALSE, stage1 |-> FALSE, stage2 |-> FALSE, stage3 |-> FALSE]

\* { role: 'user', content }
UserMessage(content) ==
    [role |-> "user", content |-> content, stage1 |-> Undef, stage2 |-> Undef,
     stage3 |-> Undef, metadata |-> Undef, loading |-> NoLoading]

\* the empty shell created by handleSendMessage
AssistantMessage ==
    [role |-> "assistant", content |-> Undef, stage1 |-> Null, stage2 |-> Null,
     stage3 |-> Null, metadata |-> Null, loading |-> Loading(FALSE, FALSE, FALSE)]

\* an assistant message as the server returns it: stage results, no `loading`
\* (the renderer reads msg.loading?.stage1)
StoredAssistantMessage ==
    [role |-> "assistant", content |-> Undef, stage1 |-> "p", stage2 |-> "r",
     stage3 |-> "s", metadata |-> Undef, loading |-> NoLoading]

\* An object no longer reachable from the application state: once the
\* conversation that referenced it is replaced, nothing can read it.
Collected ==
    [role |-> "collected", content |-> Undef, stage1 |-> Undef, stage2 |-> Undef,
     stage3 |-> Undef, metadata |-> Undef, loading |-> NoLoading]

\* currentConversation === null
NullConv == [id |-> Null, messages |-> <<>>]

\* The messages a loaded conversation carries, by number of messages.
StoredMessages(k) ==
    IF k = 0 THEN <<>>
    ELSE IF k = 1 THEN <<UserMessage("x")>>
    ELSE <<UserMessage("x"), StoredAssistantMessage>>

StoredShapes == {0, 1, 2}

(* ---------------------------- updaters --------------------------------- *)
\* The result of running a state updater on (prev, heap): the next
\* conversation, the heap after the writes made through references, and
\* whether the updater threw.
Ok(conv, h) == [conv |-> conv, heap |-> h, threw |-> FALSE]
Threw(conv, h) == [conv |-> conv, heap |-> h, threw |-> TRUE]

\* messages[messages.length - 1] exists
HasLast(prev) == prev # NullConv /\ Len(prev.messages) > 0
LastRef(prev) == prev.messages[Len(prev.messages)]


\* prev => ({ ...prev, messages: [...prev.messages, message] })
AppendMessage(prev, h, ref) ==
    IF prev = NullConv THEN Threw(prev, h)
    ELSE Ok([prev EXCEPT !.messages = Append(@, ref)], h)

\* Writes the `loading` flag of one stage of the last message; throws when
\* there is no last message or it has no `loading` object.
SetLoadingFlag(prev, h, stage, value) ==
    IF ~HasLast(prev) THEN Threw(prev, h)
    ELSE IF ~h[LastRef(prev)].loading.present THEN Threw(prev, h)
    ELSE Ok(prev, [h EXCEPT ![LastRef(prev)].loading[stage] = value])

\* case 'stage1_start'
Stage1Start(prev, h, event) == SetLoadingFlag(prev, h, "stage1", TRUE)

\* case 'stage1_complete': lastMsg.stage1 is written before lastMsg.loading
\* is dereferenced, so the write survives a throw.
Stage1Complete(prev, h, event) ==
    IF ~HasLast(prev) THEN Threw(prev, h)
    ELSE SetLoadingFlag(prev, [h EXCEPT ![LastRef(prev)].stage1 = event.data],
                        "stage1", FALSE)

\* case 'stage2_start'
Stage2Start(prev, h, event) == SetLoadingFlag(prev, h, "stage2", TRUE)

\* a stage2_complete that stores the rankings and forgets the metadata
Stage2CompleteDropsMetadata(prev, h, event) ==
    IF ~HasLast(prev) THEN Threw(prev, h)
    ELSE SetLoadingFlag(prev, [h EXCEPT ![LastRef(prev)].stage2 = event.data],
                        "stage2", FALSE)

\* case 'stage2_complete'
Stage2Complete(prev, h, event) ==
    IF ~HasLast(prev) THEN Threw(prev, h)
    ELSE SetLoadingFlag(prev,
                        [h EXCEPT ![LastRef(prev)].stage2 = event.data,
                                  ![LastRef(prev)].metadata = event.metadata],
                        "stage2", FALSE)

\* case 'stage3_start'
Stage3Start(prev, h, event) == SetLoadingFlag(prev, h, "stage3", TRUE)

\* case 'stage3_complete'
Stage3Complete(prev, h, event) ==
    IF ~HasLast(prev) THEN Threw(prev, h)
    ELSE SetLoadingFlag(prev, [h EXCEPT ![LastRef(prev)].stage3 = event.data],
                        "stage3", FALSE)

StageEventTypes ==
    {"stage1_start", "stage1_complete", "stage2_start", "stage2_complete",
     "stage3_start", "stage3_complete"}

\* The conversation updater that onEvent enqueues for an event (none for
\* title_complete, complete, error and unrecognized types).
StageUpdater(prev, h, event) ==
    CASE event.type = "stage1_start" -> Stage1Start(prev, h, event)
      [] event.type = "stage1_complete" -> Stage1Complete(prev, h, event)
      [] event.type = "stage2_start" -> Stage2Start(prev, h, event)
      [] event.type = "stage2_complete" -> Stage2Complete(prev, h, event)
      [] event.type = "stage3_start" -> Stage3Start(prev, h, event)
      [] event.type = "stage3_complete" -> Stage3Complete(prev, h, event)
      [] OTHER -> Ok(prev, h)

\* an onEvent whose 'error' case does not clear the busy flag
BusyClearedOnCompleteOnly(busy, event) ==
    IF event.type = "complete" THEN FALSE ELSE busy

\* an onEvent that takes the title for the end of the turn
BusyClearedOnTitle(busy, event) ==
    IF event.type \in {"complete", "error", "title_complete"} THEN FALSE ELSE busy

\* onEvent's effect on the busy flag: cleared by 'complete' and 'error'
BusyAfterEvent(busy, event) ==
    IF event.type \in {"complete", "error"} THEN FALSE ELSE busy

\* onEvent calls loadConversations() for 'title_complete' and 'complete'
RefreshesList(event) == event.type \in {"title_complete", "complete"}

\* catch: prev => ({ ...prev, messages: prev.messages.slice(0, -2) })
Rollback(prev, h) ==
    IF prev = NullConv THEN Threw(prev, h)
    ELSE IF Len(prev.messages) < 2 THEN Ok([prev EXCEPT !.messages = <<>>], h)
    ELSE Ok([prev EXCEPT !.messages = SubSeq(@, 1, Len(@) - 2)], h)

\* The heap once `conv` is the whole application state: objects it does not
\* reference are garbage.
Collect(conv, h) ==
    [o \in DOMAIN h |->
        IF \E i \in DOMAIN conv.messages : conv.messages[i] = o THEN h[o] ELSE Collected]

(* ---------------------------- config store ----------------------------- *)
\* A storage tier maps each key to <<>> (no item) or <<value>>.
STORAGE_KEYS == {"apiKey", "councilModels", "chairmanModel", "sessionOnly", "modelsCustomized"}

EmptyStorage == [k \in STORAGE_KEYS |-> <<>>]

\* storage.getItem(k): the item, or null
GetItem(storage, k) == IF storage[k] = <<>> THEN Null ELSE storage[k][1]
SetItem(storage, k, v) == [storage EXCEPT ![k] = <<v>>]
RemoveItem(storage, k) == [storage EXCEPT ![k] = <<>>]

\* JavaScript truthiness of a string-or-null
Truthy(v) == v # Null /\ v # ""

Tiers(ls, ss) == [ls |-> ls, ss |-> ss]

\* getStore() === sessionStorage
UsesSession(ls) == GetItem(ls, "sessionOnly") = "true"

\* configStore.isSessionOnly()
IsSessionOnly(ls) == GetItem(ls, "sessionOnly") = "true"

\* a getApiKey that reads the durable tier only
GetApiKeyDurableOnly(ls, ss) ==
    IF Truthy(GetItem(ls, "apiKey")) THEN GetItem(ls, "apiKey") ELSE ""

\* configStore.getApiKey()
GetApiKey(ls, ss) ==
    IF Truthy(GetItem(ss, "apiKey")) THEN GetItem(ss, "apiKey")
    ELSE IF Truthy(GetItem(ls, "apiKey")) THEN GetItem(ls, "apiKey")
    ELSE ""

\* configStore.setApiKey(key)
SetApiKey(ls, ss, key) ==
    IF UsesSession(ls)
    THEN Tiers(RemoveItem(ls, "apiKey"), SetItem(ss, "apiKey", key))
    ELSE Tiers(SetItem(ls, "apiKey", key), RemoveItem(ss, "apiKey"))

\* a setSessionOnly that copies the key to the other tier and leaves the original
SetSessionOnlyCopies(ls, ss, val) ==
    LET ls1 == SetItem(ls, "sessionOnly", IF val THEN "true" ELSE "false")
    IN  IF val
        THEN IF Truthy(GetItem(ls1, "apiKey"))
             THEN Tiers(ls1, SetItem(ss, "apiKey", GetItem(ls1, "apiKey")))
             ELSE Tiers(ls1, ss)
        ELSE IF Truthy(GetItem(ss, "apiKey"))
             THEN Tiers(SetItem(ls1, "apiKey", GetItem(ss, "apiKey")), ss)
             ELSE Tiers(ls1, ss)

\* a setSessionOnly that records the mode and leaves the key where it is
SetSessionOnlyKeepsKey(ls, ss, val) ==
    Tiers(SetItem(ls, "sessionOnly", IF val THEN "true" ELSE "false"), ss)

\* a setSessionOnly that flips the stored mode whatever it is asked
SetSessionOnlyToggles(ls, ss, val) ==
    LET next == ~IsSessionOnly(ls)
        ls1 == SetItem(ls, "sessionOnly", IF next THEN "true" ELSE "false")
    IN  IF next
        THEN IF Truthy(GetItem(ls1, "apiKey"))
             THEN Tiers(RemoveItem(ls1, "apiKey"),
                        SetItem(ss, "apiKey", GetItem(ls1, "apiKey")))
             ELSE Tiers(ls1, ss)
        ELSE IF Truthy(GetItem(ss, "apiKey"))
             THEN Tiers(SetItem(ls1, "apiKey", GetItem(ss, "apiKey")),
                        RemoveItem(ss, "apiKey"))
             ELSE Tiers(ls1, ss)

\* configStore.setSessionOnly(val)
SetSessionOnly(ls, ss, val) ==
    LET ls1 == SetItem(ls, "sessionOnly", IF val THEN "true" ELSE "false")
    IN  IF val
        THEN IF Truthy(GetItem(ls1, "apiKey"))
             THEN Tiers(RemoveItem(ls1, "apiKey"),
                        SetItem(ss, "apiKey", GetItem(ls1, "apiKey")))
             ELSE Tiers(ls1, ss)
        ELSE IF Truthy(GetItem(ss, "apiKey"))
             THEN Tiers(SetItem(ls1, "apiKey", GetItem(ss, "apiKey")),
                        RemoveItem(ss, "apiKey"))
             ELSE Tiers(ls1, ss)

\* a clearAll that empties the durable tier and leaves the session tier
ClearAllDurableOnly(ls, ss) == Tiers(EmptyStorage, ss)

\* configStore.clearAll()
ClearAll(ls, ss) == Tiers(EmptyStorage, EmptyStorage)

(* ---------------------------- model selection -------------------------- *)
\* A council value is <<>> (null) or <<list>> (an array of model ids).
NullCouncil == <<>>
Council(list) == <<list>>

\* the arrays of distinct model ids
Councils ==
    {l \in UNION {[1..n -> ModelIds] : n \in 0..Cardinality(ModelIds)} :
        \A i, j \in DOMAIN l : l[i] = l[j] => i = j}

\* JSON.stringify of an array of strings: ["a","b"]
RECURSIVE JoinQuoted(_)
JoinQuoted(list) ==
    IF list = <<>> THEN ""
    ELSE IF Len(list) = 1 THEN "\"" \o list[1] \o "\""
    ELSE "\"" \o list[1] \o "\"," \o JoinQuoted(Tail(list))

JsonStringify(list) == "[" \o JoinQuoted(list) \o "]"

\* JSON.parse of a stored text: the array it is the text of; any other
\* text of the store (a model id, a flag) is not JSON and makes it throw.
JsonParses(text) == \E l \in Councils : JsonStringify(l) = text
JsonParse(text) == CHOOSE l \in Councils : JsonStringify(l) = text

\* configStore.getCouncilModels()
GetCouncilModels(ls) ==
    IF ~Truthy(GetItem(ls, "councilModels")) THEN NullCouncil
    ELSE IF JsonParses(GetItem(ls, "councilModels"))
         THEN Council(JsonParse(GetItem(ls, "councilModels")))
         ELSE NullCouncil

\* configStore.setCouncilModels(models)
SetCouncilModels(ls, models) == SetItem(ls, "councilModels", JsonStringify(models))

\* configStore.getChairmanModel()
GetChairmanModel(ls) ==
    IF Truthy(GetItem(ls, "chairmanModel")) THEN GetItem(ls, "chairmanModel") ELSE Null

\* configStore.setChairmanModel(model)
SetChairmanModel(ls, model) == SetItem(ls, "chairmanModel", model)

\* configStore.isModelsCustomized()
IsModelsCustomized(ls) == GetItem(ls, "modelsCustomized") = "true"

\* configStore.setModelsCustomized(value)
SetModelsCustomized(ls, value) ==
    SetItem(ls, "modelsCustomized", IF value THEN "true" ELSE "false")

\* A `defaults` argument: null / undefined (present = FALSE), or an object
\* whose council is a council value and whose chairman is a model id, "" or null.
Defaults(council, chairman) == [present |-> TRUE, council |-> council, chairman |-> chairman]
NoDefaults == [present |-> FALSE, council |-> NullCouncil, chairman |-> Null]

\* defaults?.council and defaults?.chairman as conditions (an array is truthy)
HasCouncil(defaults) == defaults.present /\ defaults.council # NullCouncil
HasChairman(defaults) == defaults.present /\ Truthy(defaults.chairman)

\* a syncDefaults without the check of the customized flag
SyncDefaultsUnguarded(ls, defaults) ==
    LET ls1 == IF HasCouncil(defaults)
               THEN SetItem(ls, "councilModels", JsonStringify(defaults.council[1]))
               ELSE RemoveItem(ls, "councilModels")
    IN  IF HasChairman(defaults)
        THEN SetItem(ls1, "chairmanModel", defaults.chairman)
        ELSE RemoveItem(ls1, "chairmanModel")

\* a syncDefaults that fills in what is missing and keeps what is stored
SyncDefaultsKeepsStored(ls, defaults) ==
    IF GetItem(ls, "modelsCustomized") = "true" THEN ls
    ELSE LET ls1 == IF ls["councilModels"] # <<>> THEN ls
                    ELSE IF HasCouncil(defaults)
                    THEN SetItem(ls, "councilModels", JsonStringify(defaults.council[1]))
                    ELSE ls
         IN  IF ls1["chairmanModel"] # <<>> THEN ls1
             ELSE IF HasChairman(defaults)
             THEN SetItem(ls1, "chairmanModel", defaults.chairman)
             ELSE ls1

\* configStore.syncDefaults(defaults)
SyncDefaults(ls, defaults) ==
    IF GetItem(ls, "modelsCustomized") = "true" THEN ls
    ELSE LET ls1 == IF HasCouncil(defaults)
                    THEN SetItem(ls, "councilModels", JsonStringify(defaults.council[1]))
                    ELSE RemoveItem(ls, "councilModels")
         IN  IF HasChairman(defaults)
             THEN SetItem(ls1, "chairmanModel", defaults.chairman)
             ELSE RemoveItem(ls1, "chairmanModel")


\* a reset that applies the defaults and leaves the customized flag as it is
ResetKeepsFlag(ls, defaults) ==
    LET ls1 == IF HasCouncil(defaults)
               THEN SetItem(ls, "councilModels", JsonStringify(defaults.council[1]))
               ELSE RemoveItem(ls, "councilModels")
    IN  IF HasChairman(defaults)
        THEN SetItem(ls1, "chairmanModel", defaults.chairman)
        ELSE RemoveItem(ls1, "chairmanModel")

\* configStore.resetModelCustomization(defaults)
ResetModelCustomization(ls, defaults) ==
    LET ls0 == RemoveItem(ls, "modelsCustomized")
        ls1 == IF HasCouncil(defaults)
               THEN SetItem(ls0, "councilModels", JsonStringify(defaults.council[1]))
               ELSE RemoveItem(ls0, "councilModels")
    IN  IF HasChairman(defaults)
        THEN SetItem(ls1, "chairmanModel", defaults.chairman)
        ELSE RemoveItem(ls1, "chairmanModel")

(* ---------------------------- state ------------------------------------ *)
VARIABLES
    currentConversationId,  \* App state: id of the selected conversation, or Null
    currentConversation,    \* App state: [id, messages (heap references)], or NullConv
    heap,                   \* the message objects ever created, by reference
    isLoading,              \* App state: the busy flag
    settingsOpen,           \* App state: the settings panel is open
    hasServerApiAccess,     \* App state: the server has a fallback credential
    config,                 \* App state: [apiKey]
    conversations,          \* App state: the conversation summaries
    crashed,                \* an updater threw: the React tree is unmounted
    sends,                  \* the streaming requests issued: [conv, phase, sent, errored]
    loads,                  \* getConversation requests in flight (conversation ids)
    nLoads,                 \* loads started so far
    listReqs,               \* listConversations requests in flight (saturating)
    localStorage,           \* durable tier
    sessionStorage,         \* session tier
    storeOps,               \* configuration-store operations applied so far
    storeLog,               \* history: the last two configuration-store operations
    fetches,                \* fetchModels calls in flight: what each read before its await
    nFetches,               \* fetchModels calls started so far
    chosen,                 \* history: the selection the user made deliberately
    selOps,                 \* model-selection handler calls so far
    chunks,                 \* stream reader: the chunks reader.read() has yet to return
    delivered,              \* stream reader: the events passed to onEvent so far
    stream,                 \* history: the lines the server wrote and how they were cut
    errorDialog,            \* App state: the error dialog [title, message], or NoDialog
    pendingDeleteConversation, \* App state: id of the conversation to delete, or Null
    call,                   \* the rename or delete call in flight, or NoCall
    callLog,                \* history: the rename and delete calls that ended
    input,                  \* ChatInterface state: the text of the input box
    usdInrRate,             \* App state: the exchange rate, rupees per dollar
    estimate,               \* what the cost line of the chat form shows
    lastIssued,             \* history: the response to the fetchModels call issued last
    reset,                  \* history: the user reset to defaults
    creates,                \* createConversation requests: the list each closed over, its outcome
    isAuthenticated,        \* App state: the user is logged in
    turns,                  \* history: per send, its messages and the frames seen
    sendCalls               \* history: calls of handleSendMessage so far

appVars == <<currentConversationId, currentConversation, heap, isLoading, settingsOpen,
             hasServerApiAccess, config, conversations, crashed>>
netVars == <<sends, loads, nLoads, listReqs>>
storeVars == <<localStorage, sessionStorage, storeOps, storeLog>>
modelVars == <<fetches, nFetches, chosen, selOps>>
readerVars == <<chunks, delivered, stream>>
dialogVars == <<errorDialog, pendingDeleteConversation, call, callLog>>
estimateVars == <<input, usdInrRate, estimate>>
sessionVars == <<lastIssued, reset, creates, isAuthenticated>>
histVars == <<turns, sendCalls>>
vars == <<appVars, netVars, storeVars, histVars, modelVars, readerVars, dialogVars,
         estimateVars, sessionVars>>

Min(a, b) == IF a < b THEN a ELSE b

\* a canSend that takes the absence of server access for a credential
CanSendWithoutAccess(cfg, access) == cfg.apiKey # "" \/ ~access

\* Boolean(config.apiKey || hasServerApiAccess)
CanSend(cfg, access) == cfg.apiKey # "" \/ access

\* the conversation list the server holds
ServerList == <<[id |-> "A", message_count |-> 2], [id |-> "B", message_count |-> 0]>>

(* ---------------------------- turn history ----------------------------- *)
NoPayloads == [p1 |-> Undef, p2 |-> Undef, m |-> Undef, p3 |-> Undef]

\* turns[s].canon = k: the operations applied to the conversation state since
\* send s are exactly the first k frames of CanonTypes, all from stream s;
\* -1 once anything else touched it.  turns[s].seen holds their payloads.
NewTurn(u, a, base) ==
    [user |-> u, asst |-> a, base |-> base, canon |-> 0, seen |-> NoPayloads,
     ignored |-> FALSE]

OffTurn(t) == [t EXCEPT !.canon = -1, !.seen = NoPayloads]

RecordFrame(t, ev) ==
    [t EXCEPT !.canon = @ + 1,
              !.seen = CASE ev.type = "stage1_complete" -> [@ EXCEPT !.p1 = ev.data]
                         [] ev.type = "stage2_complete" ->
                                [@ EXCEPT !.p2 = ev.data, !.m = ev.metadata]
                         [] ev.type = "stage3_complete" -> [@ EXCEPT !.p3 = ev.data]
                         [] OTHER -> @]

\* turns[s].ignored: stream s delivered a title_complete or unrecognized
\* frame between stage1_start and stage1_complete
IgnoredAfter(ignored, sent, ev) ==
    ignored \/ (sent = 1 /\ ev.type \in {"title_complete", "other"})

\* the history after stream s delivered frame ev
TurnsAfterFrame(s, ev) ==
    [t \in DOMAIN turns |->
        LET next == IF t = s /\ turns[t].canon \in 0..6
                       /\ ev.type = CanonTypes[turns[t].canon + 1]
                    THEN RecordFrame(turns[t], ev)
                    ELSE OffTurn(turns[t])
        IN  IF t = s THEN [next EXCEPT !.ignored = IgnoredAfter(@, sends[s].sent, ev)]
            ELSE next]

\* the history after any other step that writes the conversation state
TurnsAfterOther == [t \in DOMAIN turns |-> OffTurn(turns[t])]

(* ---------------------------- initial states --------------------------- *)
\* Nothing selected, nothing in flight.
InitNet ==
    /\ sends = <<>>
    /\ loads = <<>>
    /\ nLoads = 0
    /\ listReqs = 0
    /\ turns = <<>>
    /\ sendCalls = 0

\* useState({ ..., defaults: { council: [], chairman: '' } }): before the first
\* catalog response the application knows no defaults
NoneYet == Defaults(Council(<<>>), "")

\* useState({ apiKey: configStore.getApiKey(), councilModels: ..., chairmanModel: ... }):
\* the stored selection when the user customized it, null otherwise
InitialConfig(ls, ss) ==
    [apiKey |-> GetApiKey(ls, ss),
     councilModels |-> IF IsModelsCustomized(ls) THEN GetCouncilModels(ls) ELSE NullCouncil,
     chairmanModel |-> IF IsModelsCustomized(ls) THEN GetChairmanModel(ls) ELSE Null,
     availableModels |-> <<>>,
     defaults |-> NoneYet]

\* no stream is being read
NoStream == [lines |-> <<>>, chunks |-> <<>>]

(* ---------------------------- cost estimate ---------------------------- *)
\* An input text is a sequence of characters, blank or not.  Amounts of
\* money are whole numbers of 1e-8 of the currency.
Chars == {" ", "x"}

RECURSIVE TrimStart(_)
TrimStart(text) ==
    IF text # <<>> /\ text[1] = " " THEN TrimStart(Tail(text)) ELSE text

RECURSIVE TrimEnd(_)
TrimEnd(text) ==
    IF text # <<>> /\ text[Len(text)] = " "
    THEN TrimEnd(SubSeq(text, 1, Len(text) - 1)) ELSE text

\* input.trim()
Trim(text) == TrimEnd(TrimStart(text))

Max(a, b) == IF a > b THEN a ELSE b

\* an estimate that counts the blanks around the text
EstimatedInputTokensUntrimmed(text) ==
    IF Trim(text) = <<>> THEN 0 ELSE Max(1, (Len(text) + 3) \div 4)

\* estimatedInputTokens: Math.max(1, Math.ceil(trimmed.length / 4)), or 0
EstimatedInputTokens(text) ==
    LET trimmed == Trim(text)
    IN  IF trimmed = <<>> THEN 0 ELSE Max(1, (Len(trimmed) + 3) \div 4)

\* model?.prompt_cost_per_token || 0 with the catalog of the session: a at
\* 0.00005 and b at 0.00000003 dollars a token, c without a price, d unknown
PromptPrice(modelId) ==
    IF modelId = "a" THEN 5000 ELSE IF modelId = "b" THEN 3 ELSE 0

\* (councilModels || []).reduce((sum, modelId) => sum + promptPrice * tokens, 0)
RECURSIVE SumOfPrices(_, _)
SumOfPrices(council, tokens) ==
    IF council = <<>> THEN 0
    ELSE PromptPrice(council[1]) * tokens + SumOfPrices(Tail(council), tokens)

\* estimatedStage1Usd
EstimatedStage1Usd(tokens, council) ==
    IF tokens = 0 \/ Len(council) = 0 THEN 0 ELSE SumOfPrices(council, tokens)

\* estimatedStage1Inr
EstimatedStage1Inr(usd, rate) == usd * rate

\* 0.0001 dollars and 0.01 rupees
UsdFloor == 10000
InrFloor == 1000000

\* amount.toFixed(digits): the nearest multiple of the unit of the last digit
ToFixed(amount, unit) == ((2 * amount + unit) \div (2 * unit)) * unit

\* a label: the zero literal, the "less than" literal, or a decimal number
Label(kind, value) == [kind |-> kind, value |-> value]

\* a label without the "less than" case
UsdCostLabelNoFloor(usd) ==
    IF usd <= 0 THEN Label("zero", 0) ELSE Label("fixed", ToFixed(usd, 100))

\* usdCostLabel: '$0.000000', '< $0.0001', or toFixed(6)
UsdCostLabel(usd) ==
    IF usd <= 0 THEN Label("zero", 0)
    ELSE IF usd < UsdFloor THEN Label("less", UsdFloor)
    ELSE Label("fixed", ToFixed(usd, 100))

\* inrCostLabel: the zero literal, '< 0.01', or toFixed(2)
InrCostLabel(inr) ==
    IF inr <= 0 THEN Label("zero", 0)
    ELSE IF inr < InrFloor THEN Label("less", InrFloor)
    ELSE Label("fixed", ToFixed(inr, 1000000))

\* the cost line rendered for an input, a council and a rate
Render(text, council, rate) ==
    LET tokens == EstimatedInputTokens(text)
        usd == EstimatedStage1Usd(tokens, council)
    IN  [tokens |-> tokens, usd |-> usd,
         usdLabel |-> UsdCostLabel(usd),
         inrLabel |-> InrCostLabel(EstimatedStage1Inr(usd, rate))]

\* the chat form with an empty input box
InitNoInput ==
    /\ input = <<>>
    /\ usdInrRate = 83
    /\ estimate = Render(<<>>, <<>>, 83)

\* useState(null) of the error dialog: no dialog
NoDialog == [title |-> Null, message |-> Null]

\* no rename or delete call in flight
NoCall == [kind |-> "none", id |-> Null, current |-> Null, awaiting |-> "none", requests |-> <<>>]

\* no dialog open, no call made
InitDialogs ==
    /\ errorDialog = NoDialog
    /\ pendingDeleteConversation = Null
    /\ call = NoCall
    /\ callLog = <<>>

\* what the response to a fetchModels call made of the catalog state: whether
\* the request succeeded, and the defaults it put in config.defaults
Response(ok, defaults) == [ok |-> ok, defaults |-> defaults, applied |-> TRUE]

\* the call issued last has no response yet
NoResponse == [ok |-> FALSE, defaults |-> NoDefaults, applied |-> FALSE]

\* logged in; no reset made, no catalog response, no create request
InitSession ==
    /\ lastIssued = NoResponse
    /\ reset = FALSE
    /\ creates = <<>>
    /\ isAuthenticated = TRUE

\* the user chose nothing yet
NoChoice == [council |-> NullCouncil, chairman |-> Null]

\* No catalog fetch in flight, no selection made, no stream being read.
InitIdle ==
    /\ fetches = <<>>
    /\ nFetches = 0
    /\ chosen = NoChoice
    /\ selOps = 0
    /\ chunks = <<>>
    /\ delivered = <<>>
    /\ stream = NoStream
    /\ InitDialogs
    /\ InitSession
    /\ InitNoInput

\* The credentials of a session: API key k in the durable tier (none when
\* k is ""), config.apiKey read from the store, and the outcome of the
\* catalog fetch.
InitCredentials(k, access) ==
    /\ localStorage = IF k = "" THEN EmptyStorage ELSE SetItem(EmptyStorage, "apiKey", k)
    /\ sessionStorage = EmptyStorage
    /\ storeOps = 0
    /\ storeLog = <<>>
    /\ config = InitialConfig(localStorage, sessionStorage)
    /\ hasServerApiAccess = access

\* A session in which conversation A, holding one finished turn, is open and
\* the conversation list is loaded; with a stored API key, or with no
\* credential at all.
Init ==
    /\ currentConversationId = "A"
    /\ heap = StoredMessages(2)
    /\ currentConversation = [id |-> "A", messages |-> <<1, 2>>]
    /\ isLoading = FALSE
    /\ settingsOpen = FALSE
    /\ conversations = ServerList
    /\ crashed = FALSE
    /\ InitNet
    /\ InitIdle
    /\ \E k \in {"", "sk1"} : InitCredentials(k, FALSE)

(* ---------------------------- navigation ------------------------------- *)
\* handleSelectConversation(id), and the effect on [currentConversationId]
\* that starts loadConversation(id).  Selecting the selected id changes nothing.
SelectWithin(id, bound) ==
    /\ ~crashed
    /\ id # currentConversationId
    /\ nLoads < bound
    /\ currentConversationId' = id
    /\ loads' = Append(loads, id)
    /\ nLoads' = nLoads + 1
    /\ UNCHANGED <<currentConversation, heap, isLoading, settingsOpen, hasServerApiAccess,
                   config, conversations, crashed, sends, listReqs, storeVars, modelVars, readerVars, dialogVars, histVars, estimateVars, sessionVars>>

SelectConversation(id) == SelectWithin(id, MaxLoads)

RemoveAt(seq, i) == SubSeq(seq, 1, i - 1) \o SubSeq(seq, i + 1, Len(seq))

\* the references of n objects allocated at the end of heap h
NewRefs(h, n) == [j \in 1..n |-> Len(h) + j]

\* loadConversation: api.getConversation(id) resolved with a conversation of
\* k messages; setCurrentConversation(conv)
LoadSettle(i, k) ==
    /\ ~crashed
    /\ i \in DOMAIN loads
    /\ currentConversation' = [id |-> loads[i], messages |-> NewRefs(heap, k)]
    /\ heap' = Collect(currentConversation', heap \o StoredMessages(k))
    /\ loads' = RemoveAt(loads, i)
    /\ turns' = TurnsAfterOther
    /\ UNCHANGED <<currentConversationId, isLoading, settingsOpen, hasServerApiAccess,
                   config, conversations, crashed, sends, nLoads, listReqs, storeVars, modelVars, readerVars, dialogVars, sendCalls, estimateVars, sessionVars>>

\* loadConversation: the request failed; logged only
LoadFail(i) ==
    /\ ~crashed
    /\ i \in DOMAIN loads
    /\ loads' = RemoveAt(loads, i)
    /\ UNCHANGED <<appVars, sends, nLoads, listReqs, storeVars, modelVars, readerVars, dialogVars, histVars, estimateVars, sessionVars>>

\* loadConversations: api.listConversations() resolved (setConversations) or
\* failed (logged only)
ListSettle(ok) ==
    /\ ~crashed
    /\ listReqs > 0
    /\ listReqs' = listReqs - 1
    /\ conversations' = IF ok THEN ServerList ELSE conversations
    /\ UNCHANGED <<currentConversationId, currentConversation, heap, isLoading,
                   settingsOpen, hasServerApiAccess, config, crashed, sends, loads,
                   nLoads, storeVars, modelVars, readerVars, dialogVars, histVars, estimateVars, sessionVars>>

\* SettingsPanel onClose
CloseSettings ==
    /\ ~crashed
    /\ settingsOpen
    /\ settingsOpen' = FALSE
    /\ UNCHANGED <<currentConversationId, currentConversation, heap, isLoading,
                   hasServerApiAccess, config, conversations, crashed, netVars,
                   storeVars, modelVars, readerVars, dialogVars, histVars, estimateVars, sessionVars>>

(* ---------------------------- sending ---------------------------------- *)
\* the two insertions in the wrong order: the shell first
OptimisticInsertReversed(prev, h, u, a) ==
    IF AppendMessage(prev, h, a).threw THEN AppendMessage(prev, h, a)
    ELSE AppendMessage(AppendMessage(prev, h, a).conv, h, u)

\* The two optimistic insertions of handleSendMessage, applied in order to
\* heap h in which the user message is at reference u and the shell at a.
OptimisticInsert(prev, h, u, a) ==
    IF AppendMessage(prev, h, u).threw THEN AppendMessage(prev, h, u)
    ELSE AppendMessage(AppendMessage(prev, h, u).conv, h, a)

\* handleSendMessage(content), up to the await of api.sendMessageStream
HandleSendMessage(content) ==
    IF currentConversationId = Null
    THEN /\ sendCalls' = sendCalls + 1
         /\ UNCHANGED <<appVars, netVars, storeVars, modelVars, readerVars, dialogVars, turns, estimateVars, sessionVars>>
    ELSE IF ~CanSend(config, hasServerApiAccess)
    THEN /\ settingsOpen' = TRUE
         /\ sendCalls' = sendCalls + 1
         /\ UNCHANGED <<currentConversationId, currentConversation, heap, isLoading,
                        hasServerApiAccess, config, conversations, crashed, netVars,
                        storeVars, modelVars, readerVars, dialogVars, turns, estimateVars, sessionVars>>
    ELSE LET h1 == heap \o <<UserMessage(content), AssistantMessage>>
             r == OptimisticInsert(currentConversation, h1, Len(heap) + 1, Len(heap) + 2)
         IN  /\ Len(sends) < MaxSends
             /\ sendCalls' = sendCalls + 1
             /\ isLoading' = TRUE
             /\ currentConversation' = r.conv
             /\ heap' = r.heap
             /\ crashed' = r.threw
             /\ sends' = Append(sends, [conv |-> currentConversationId,
                                        phase |-> "requested", sent |-> 0,
                                        errored |-> FALSE])
             /\ turns' = Append(TurnsAfterOther,
                                NewTurn(Len(heap) + 1, Len(heap) + 2,
                                        currentConversation.messages))
             /\ UNCHANGED <<currentConversationId, settingsOpen, hasServerApiAccess,
                            config, conversations, loads, nLoads, listReqs, storeVars, modelVars, readerVars, dialogVars, estimateVars, sessionVars>>

\* ChatInterface.handleSubmit: the form exists only for a non-null
\* conversation; input.trim() && !isLoading && !disabled
Submit(content) ==
    /\ ~crashed
    /\ currentConversation # NullConv
    /\ content # ""
    /\ ~isLoading
    /\ CanSend(config, hasServerApiAccess)
    /\ HandleSendMessage(content)

\* handleSendMessage called as the prop it is, without handleSubmit's checks
CallSendMessage(content) ==
    /\ ~crashed
    /\ sendCalls < MaxCalls
    /\ HandleSendMessage(content)

(* ---------------------------- the stream ------------------------------- *)
\* fetch resolved with an OK response; the read loop starts
ResponseOk(s) ==
    /\ ~crashed
    /\ s \in DOMAIN sends
    /\ sends[s].phase = "requested"
    /\ sends' = [sends EXCEPT ![s].phase = "reading"]
    /\ UNCHANGED <<appVars, loads, nLoads, listReqs, storeVars, modelVars, readerVars, dialogVars, histVars, estimateVars, sessionVars>>

\* one parsed event delivered to onEvent(event.type, event)
OnEvent(s, ev) ==
    LET r == StageUpdater(currentConversation, heap, ev)
    IN  /\ ~crashed
        /\ s \in DOMAIN sends
        /\ sends[s].phase = "reading"
        /\ ServerMayEmit(sends[s].sent, sends[s].errored, ev)
        /\ sends' = [sends EXCEPT
                        ![s].sent = IF ev.type = CanonTypes[@ + 1] THEN @ + 1 ELSE @,
                        ![s].errored = (ev.type = "error")]
        /\ currentConversation' = r.conv
        /\ heap' = r.heap
        /\ crashed' = r.threw
        /\ isLoading' = BusyAfterEvent(isLoading, ev)
        /\ listReqs' = IF RefreshesList(ev) THEN Min(listReqs + 1, MaxListReqs)
                       ELSE listReqs
        /\ turns' = TurnsAfterFrame(s, ev)
        /\ UNCHANGED <<currentConversationId, settingsOpen, hasServerApiAccess, config,
                       conversations, loads, nLoads, storeVars, modelVars, readerVars, dialogVars, sendCalls, estimateVars, sessionVars>>

\* reader.read() resolved with done: sendMessageStream returns
ReadDone(s) ==
    /\ ~crashed
    /\ s \in DOMAIN sends
    /\ sends[s].phase = "reading"
    /\ sends' = [sends EXCEPT ![s].phase = "ended"]
    /\ UNCHANGED <<appVars, loads, nLoads, listReqs, storeVars, modelVars, readerVars, dialogVars, histVars, estimateVars, sessionVars>>

\* the catch block of handleSendMessage
Catch(s) ==
    LET r == Rollback(currentConversation, heap)
    IN  /\ currentConversation' = r.conv
        /\ heap' = Collect(r.conv, r.heap)
        /\ crashed' = r.threw
        /\ isLoading' = FALSE
        /\ sends' = [sends EXCEPT ![s].phase = "thrown"]
        /\ turns' = TurnsAfterOther
        /\ UNCHANGED <<currentConversationId, settingsOpen, hasServerApiAccess, config,
                       conversations, loads, nLoads, listReqs, storeVars, modelVars, readerVars, dialogVars, sendCalls, estimateVars, sessionVars>>

\* fetch rejected, or the response was not OK: sendMessageStream throws
ResponseFail(s) ==
    /\ ~crashed
    /\ s \in DOMAIN sends
    /\ sends[s].phase = "requested"
    /\ Catch(s)

\* reader.read() rejected in the read loop: sendMessageStream throws
ReadError(s) ==
    /\ ~crashed
    /\ s \in DOMAIN sends
    /\ sends[s].phase = "reading"
    /\ Catch(s)

(* ---------------------------- specifications --------------------------- *)
Navigation ==
    \/ \E id \in ConvIds : SelectConversation(id)
    \/ \E i \in 1..MaxLoads, k \in StoredShapes : LoadSettle(i, k)
    \/ \E i \in 1..MaxLoads : LoadFail(i)
    \/ \E ok \in BOOLEAN : ListSettle(ok)

Streaming ==
    \/ \E s \in 1..MaxSends : ResponseOk(s)
    \/ \E s \in 1..MaxSends, ev \in Frames : OnEvent(s, ev)
    \/ \E s \in 1..MaxSends : ReadDone(s)
    \/ \E s \in 1..MaxSends : ResponseFail(s)
    \/ \E s \in 1..MaxSends : ReadError(s)

\* The application as the user drives it.
Next ==
    \/ Navigation
    \/ Streaming
    \/ \E content \in Contents : Submit(content)

Spec == Init /\ [][Next]_vars


(* ---------------------------- the handler alone ------------------------ *)
\* A session with nothing selected yet, in every credential state.
InitHandlers ==
    /\ currentConversationId = Null
    /\ currentConversation = NullConv
    /\ heap = <<>>
    /\ isLoading = FALSE
    /\ settingsOpen = FALSE
    /\ conversations = ServerList
    /\ crashed = FALSE
    /\ InitNet
    /\ InitIdle
    /\ \E k \in {"", "sk1"}, access \in BOOLEAN : InitCredentials(k, access)

\* handleSendMessage called in any state the navigation reaches, whatever
\* the chat form would have allowed.
NextHandlers ==
    \/ \E id \in ConvIds : SelectConversation(id)
    \/ \E i \in 1..MaxLoads, k \in StoredShapes : LoadSettle(i, k)
    \/ \E i \in 1..MaxLoads : LoadFail(i)
    \/ CloseSettings
    \/ \E content \in Contents : CallSendMessage(content)

SpecHandlers == InitHandlers /\ [][NextHandlers]_vars

(* ---------------------------- overlapping loads ---------------------- *)
\* The user selects conversations one after the other without waiting for
\* the loads; every load succeeds, and the responses arrive in any order.
NextLoads ==
    \/ \E id \in ConvIds : SelectWithin(id, MaxOverlap)
    \/ \E i \in 1..MaxOverlap, k \in StoredShapes : LoadSettle(i, k)

SpecLoads == InitHandlers /\ [][NextLoads]_vars

(* ---------------------------- new conversations ---------------------- *)
\* the ids the server gives to the conversations it creates, in the order
\* of the requests
NewIds == <<"N1", "N2", "N3", "N4">>

\* conversations.find((c) => c.message_count === 0): the position of the
\* first empty conversation of a list, 0 when there is none
FindEmpty(list) ==
    IF \A i \in DOMAIN list : list[i].message_count # 0 THEN 0
    ELSE CHOOSE i \in DOMAIN list :
             /\ list[i].message_count = 0
             /\ \A j \in 1..(i - 1) : list[j].message_count # 0

\* handleNewConversation up to its await: switch to the first empty
\* conversation of the list (the effect on [currentConversationId] loads it
\* when it was not selected already), or else send the create request, which
\* closes over the list of this render
NewConversation ==
    /\ ~crashed
    /\ IF FindEmpty(conversations) # 0
       THEN SelectWithin(conversations[FindEmpty(conversations)].id, MaxOverlap)
       ELSE /\ Len(creates) < MaxCreates
            /\ creates' = Append(creates, [list |-> conversations,
                                           id |-> NewIds[Len(creates) + 1],
                                           state |-> "pending"])
            /\ UNCHANGED <<appVars, netVars, storeVars, histVars, modelVars, readerVars,
                           dialogVars, estimateVars, lastIssued, reset, isAuthenticated>>

\* handleNewConversation after its await: the new conversation is put in
\* front of the list the handler closed over and is selected (the effect on
\* [currentConversationId] loads it); a failed request is logged only
CreateSettle(i, ok) ==
    /\ ~crashed
    /\ i \in DOMAIN creates
    /\ creates[i].state = "pending"
    /\ creates' = [creates EXCEPT ![i].state = IF ok THEN "created" ELSE "failed"]
    /\ IF ok
       THEN /\ nLoads < MaxOverlap
            /\ conversations' = <<[id |-> creates[i].id, message_count |-> 0]>>
                                     \o creates[i].list
            /\ currentConversationId' = creates[i].id
            /\ loads' = Append(loads, creates[i].id)
            /\ nLoads' = nLoads + 1
       ELSE UNCHANGED <<conversations, currentConversationId, loads, nLoads>>
    /\ UNCHANGED <<currentConversation, heap, isLoading, settingsOpen, hasServerApiAccess,
                   config, crashed, sends, listReqs, storeVars, histVars, modelVars,
                   readerVars, dialogVars, estimateVars, lastIssued, reset,
                   isAuthenticated>>

\* A session with nothing selected whose list holds no empty conversation,
\* or one.
InitNew ==
    /\ currentConversationId = Null
    /\ currentConversation = NullConv
    /\ heap = <<>>
    /\ isLoading = FALSE
    /\ settingsOpen = FALSE
    /\ conversations \in {<<ServerList[1]>>, ServerList}
    /\ crashed = FALSE
    /\ InitNet
    /\ InitIdle
    /\ InitCredentials("", FALSE)

\* The user presses New Conversation and selects conversations; no message
\* is sent, so a conversation that was created stays empty.
NextNew ==
    \/ NewConversation
    \/ \E i \in 1..MaxCreates, ok \in BOOLEAN : CreateSettle(i, ok)
    \/ \E id \in ConvIds : SelectWithin(id, MaxOverlap)
    \/ \E i \in 1..MaxOverlap, k \in StoredShapes : LoadSettle(i, k)

SpecNew == InitNew /\ [][NextNew]_vars

(* ---------------------------- the store alone -------------------------- *)
InitStore ==
    /\ currentConversationId = Null
    /\ currentConversation = NullConv
    /\ heap = <<>>
    /\ isLoading = FALSE
    /\ settingsOpen = FALSE
    /\ conversations = <<>>
    /\ crashed = FALSE
    /\ InitNet
    /\ InitIdle
    /\ InitCredentials("", FALSE)

StoreStep(tiers) ==
    /\ storeOps < MaxStoreOps
    /\ storeOps' = storeOps + 1
    /\ localStorage' = tiers.ls
    /\ sessionStorage' = tiers.ss
    /\ UNCHANGED <<appVars, netVars, histVars, modelVars, readerVars, dialogVars, estimateVars, sessionVars>>

\* the keys that have an item in a tier
StoredKeys(ls, ss) == {k \in STORAGE_KEYS : ls[k] # <<>> \/ ss[k] # <<>>}

\* one operation of the log: the call, and the key, the mode and the items
\* it found
LogEntry(op, arg) ==
    [op |-> op, arg |-> arg, key |-> GetApiKey(localStorage, sessionStorage),
     sessionOnly |-> IsSessionOnly(localStorage),
     items |-> StoredKeys(localStorage, sessionStorage)]

\* the log after one more operation: the last two are kept
Logged(op, arg) ==
    IF storeLog = <<>> THEN <<LogEntry(op, arg)>>
    ELSE <<storeLog[Len(storeLog)], LogEntry(op, arg)>>

StoreSetApiKey(key) ==
    /\ StoreStep(SetApiKey(localStorage, sessionStorage, key))
    /\ storeLog' = Logged("setApiKey", key)

StoreSetSessionOnly(val) ==
    /\ StoreStep(SetSessionOnly(localStorage, sessionStorage, val))
    /\ storeLog' = Logged("setSessionOnly", IF val THEN "true" ELSE "false")

StoreClearAll ==
    /\ StoreStep(ClearAll(localStorage, sessionStorage))
    /\ storeLog' = Logged("clearAll", "")

\* Any sequence of configuration-store calls on empty storage.
NextStore ==
    \/ \E key \in ApiKeys \cup {""} : StoreSetApiKey(key)
    \/ \E val \in BOOLEAN : StoreSetSessionOnly(val)
    \/ StoreClearAll

SpecStore == InitStore /\ [][NextStore]_vars

\* Any sequence of setApiKey with a non-empty key, setSessionOnly and clearAll
\* on empty storage.
NextApiKey ==
    \/ \E key \in ApiKeys : StoreSetApiKey(key)
    \/ \E val \in BOOLEAN : StoreSetSessionOnly(val)
    \/ StoreClearAll

SpecApiKey == InitStore /\ [][NextApiKey]_vars

(* ---------------------------- the selection store alone ---------------- *)
\* the arrays and the defaults the calls are made with
CouncilInputs == {<<>>, <<"a", "b">>, <<"c", "a", "b">>}
ChairmanInputs == {"", "a", "b"}
DefaultsInputs ==
    {NoDefaults}
    \cup {Defaults(c, m) :
            c \in {NullCouncil, Council(<<>>), Council(<<"a", "c">>), Council(<<"b", "c", "d">>)},
            m \in {Null, "", "a", "c"}}

\* one selection call of the log: the call, the council text it was given,
\* and the customized flag it found
SelectionLogEntry(op, arg) ==
    <<[op |-> op, arg |-> arg, customized |-> IsModelsCustomized(localStorage)]>>

StoreSetCouncilModels(models) ==
    /\ StoreStep(Tiers(SetCouncilModels(localStorage, models), sessionStorage))
    /\ storeLog' = SelectionLogEntry("setCouncilModels", JsonStringify(models))

StoreSetChairmanModel(model) ==
    /\ StoreStep(Tiers(SetChairmanModel(localStorage, model), sessionStorage))
    /\ storeLog' = SelectionLogEntry("setChairmanModel", model)

StoreSetModelsCustomized(value) ==
    /\ StoreStep(Tiers(SetModelsCustomized(localStorage, value), sessionStorage))
    /\ storeLog' = SelectionLogEntry("setModelsCustomized", IF value THEN "true" ELSE "false")

StoreSyncDefaults(defaults) ==
    /\ StoreStep(Tiers(SyncDefaults(localStorage, defaults), sessionStorage))
    /\ storeLog' = SelectionLogEntry("syncDefaults",
                                     IF HasCouncil(defaults)
                                     THEN JsonStringify(defaults.council[1]) ELSE "")

StoreResetModelCustomization(defaults) ==
    /\ StoreStep(Tiers(ResetModelCustomization(localStorage, defaults), sessionStorage))
    /\ storeLog' = SelectionLogEntry("resetModelCustomization",
                                     IF HasCouncil(defaults)
                                     THEN JsonStringify(defaults.council[1]) ELSE "")

\* Any sequence of selection calls of the configuration store on empty storage.
NextSelectionStore ==
    \/ \E models \in CouncilInputs : StoreSetCouncilModels(models)
    \/ \E model \in ChairmanInputs : StoreSetChairmanModel(model)
    \/ \E value \in BOOLEAN : StoreSetModelsCustomized(value)
    \/ \E defaults \in DefaultsInputs : StoreSyncDefaults(defaults)
    \/ \E defaults \in DefaultsInputs : StoreResetModelCustomization(defaults)

SpecSelectionStore == InitStore /\ [][NextSelectionStore]_vars


(* ---------------------------- model selection handlers ---------------- *)
\* data.models of a catalog response
Catalog == <<"a", "b", "c", "d">>

\* FALLBACK_DEFAULTS: four council members, the second of them the chairman
FALLBACK_DEFAULTS == Defaults(Council(<<"a", "b", "c", "d">>), "b")

\* data.defaults of a catalog response: absent, or the server's current defaults
ServerDefaults ==
    {NoDefaults, Defaults(Council(<<"a", "b">>), "a"), Defaults(Council(<<"b", "c", "d">>), "c")}

\* config.councilModels || []
CurrentCouncil(cfg) == IF cfg.councilModels = NullCouncil THEN <<>> ELSE cfg.councilModels[1]

\* current.includes(modelId)
Includes(list, id) == \E i \in DOMAIN list : list[i] = id

\* current.filter((id) => id !== modelId)
FilterOut(list, id) ==
    LET F[i \in 0..Len(list)] ==
            IF i = 0 THEN <<>>
            ELSE IF list[i] = id THEN F[i - 1] ELSE Append(F[i - 1], list[i])
    IN  F[Len(list)]

\* what a handler leaves: the in-memory config and the durable tier
Effect(cfg, ls) == [config |-> cfg, ls |-> ls]

\* if (!modelId) return; if (current.includes(modelId)) return;
AddAccepted(cfg, id) == id # "" /\ ~Includes(CurrentCouncil(cfg), id)

\* a handleAddCouncilModel that does not mark the store customized
HandleAddCouncilModelUnmarked(cfg, ls, id) ==
    IF ~AddAccepted(cfg, id) THEN Effect(cfg, ls)
    ELSE LET next == Append(CurrentCouncil(cfg), id)
         IN  Effect([cfg EXCEPT !.councilModels = Council(next)],
                    SetCouncilModels(ls, next))

\* handleAddCouncilModel(modelId)
HandleAddCouncilModel(cfg, ls, id) ==
    IF ~AddAccepted(cfg, id) THEN Effect(cfg, ls)
    ELSE LET next == Append(CurrentCouncil(cfg), id)
         IN  Effect([cfg EXCEPT !.councilModels = Council(next)],
                    SetCouncilModels(SetModelsCustomized(ls, TRUE), next))

\* a minimum of one member instead of two
TooFewBelowOne(next) == Len(next) < 1

\* if (next.length < 2) return;
TooFew(next) == Len(next) < 2

RemoveAccepted(cfg, id) == ~TooFew(FilterOut(CurrentCouncil(cfg), id))

\* handleRemoveCouncilModel(modelId)
HandleRemoveCouncilModel(cfg, ls, id) ==
    IF ~RemoveAccepted(cfg, id) THEN Effect(cfg, ls)
    ELSE LET next == FilterOut(CurrentCouncil(cfg), id)
         IN  Effect([cfg EXCEPT !.councilModels = Council(next)],
                    SetCouncilModels(SetModelsCustomized(ls, TRUE), next))

\* handleChangeChairmanModel(modelId)
HandleChangeChairmanModel(cfg, ls, id) ==
    Effect([cfg EXCEPT !.chairmanModel = id],
           SetChairmanModel(SetModelsCustomized(ls, TRUE), id))

\* SettingsPanel.handleAddModel(modelId), with handleConfigChange({ councilModels })
PanelHandleAddModel(cfg, ls, id) ==
    IF ~AddAccepted(cfg, id) THEN Effect(cfg, ls)
    ELSE LET next == Append(CurrentCouncil(cfg), id)
         IN  Effect([cfg EXCEPT !.councilModels = Council(next)],
                    SetCouncilModels(SetCouncilModels(ls, next), next))

\* SettingsPanel.handleRemoveModel(modelId), with handleConfigChange({ councilModels })
PanelHandleRemoveModel(cfg, ls, id) ==
    IF ~RemoveAccepted(cfg, id) THEN Effect(cfg, ls)
    ELSE LET next == FilterOut(CurrentCouncil(cfg), id)
         IN  Effect([cfg EXCEPT !.councilModels = Council(next)],
                    SetCouncilModels(SetCouncilModels(ls, next), next))

\* SettingsPanel.handleChairmanChange(modelId), with handleConfigChange({ chairmanModel })
PanelHandleChairmanChange(cfg, ls, id) ==
    Effect([cfg EXCEPT !.chairmanModel = id],
           SetChairmanModel(SetChairmanModel(ls, id), id))

\* One call of a selection handler: its effect, and the selection the user
\* has now made deliberately.
SelectionStep(e, choice) ==
    /\ ~crashed
    /\ selOps < MaxSelOps
    /\ selOps' = selOps + 1
    /\ config' = e.config
    /\ localStorage' = e.ls
    /\ chosen' = choice
    /\ UNCHANGED <<currentConversationId, currentConversation, heap, isLoading,
                   settingsOpen, hasServerApiAccess, conversations, crashed, netVars,
                   sessionStorage, storeOps, storeLog, histVars, fetches, nFetches,
                   readerVars, dialogVars, estimateVars, sessionVars>>

\* the record of choices after a council handler ran
CouncilChoice(e) ==
    IF e.config.councilModels = config.councilModels THEN chosen
    ELSE [chosen EXCEPT !.council = e.config.councilModels]

\* The chat input: the add select offers the catalog's models, the remove
\* button passes a model id, the chairman select offers the catalog's models.
AddCouncilModel(id) ==
    /\ config.availableModels # <<>>
    /\ LET e == HandleAddCouncilModel(config, localStorage, id)
       IN  SelectionStep(e, CouncilChoice(e))

RemoveCouncilModel(id) ==
    LET e == HandleRemoveCouncilModel(config, localStorage, id)
    IN  SelectionStep(e, CouncilChoice(e))

ChangeChairmanModel(id) ==
    /\ config.availableModels # <<>>
    /\ SelectionStep(HandleChangeChairmanModel(config, localStorage, id),
                     [chosen EXCEPT !.chairman = id])

\* The settings panel, while it is open.
PanelAddModel(id) ==
    /\ settingsOpen
    /\ config.availableModels # <<>>
    /\ LET e == PanelHandleAddModel(config, localStorage, id)
       IN  SelectionStep(e, CouncilChoice(e))

PanelRemoveModel(id) ==
    /\ settingsOpen
    /\ LET e == PanelHandleRemoveModel(config, localStorage, id)
       IN  SelectionStep(e, CouncilChoice(e))

PanelChairmanChange(id) ==
    /\ settingsOpen
    /\ config.availableModels # <<>>
    /\ SelectionStep(PanelHandleChairmanChange(config, localStorage, id),
                     [chosen EXCEPT !.chairman = id])

\* onOpenSettings
OpenSettings ==
    /\ ~crashed
    /\ ~settingsOpen
    /\ settingsOpen' = TRUE
    /\ UNCHANGED <<currentConversationId, currentConversation, heap, isLoading,
                   hasServerApiAccess, config, conversations, crashed, netVars,
                   storeVars, histVars, modelVars, readerVars, dialogVars, estimateVars, sessionVars>>

(* ---------------------------- the catalog fetch ------------------------ *)
\* What fetchModels reads from the store before it awaits the catalog; `after`
\* is the selection the user had made by then.
FetchCapture(ls) ==
    [isCustomized |-> IsModelsCustomized(ls), storedCouncil |-> GetCouncilModels(ls),
     storedChairman |-> GetChairmanModel(ls), after |-> chosen, reset |-> reset]

\* SettingsPanel.handleSaveKey with a new key: the key is stored, config.apiKey
\* changes, and the effect on [config.apiKey] calls fetchModels
SaveKey(key) ==
    /\ ~crashed
    /\ settingsOpen
    /\ key # config.apiKey
    /\ nFetches < MaxFetches
    /\ localStorage' = SetApiKey(localStorage, sessionStorage, key).ls
    /\ sessionStorage' = SetApiKey(localStorage, sessionStorage, key).ss
    /\ config' = [config EXCEPT !.apiKey = key]
    /\ fetches' = Append(fetches, FetchCapture(localStorage))
    /\ nFetches' = nFetches + 1
    /\ lastIssued' = NoResponse
    /\ UNCHANGED <<currentConversationId, currentConversation, heap, isLoading,
                   settingsOpen, hasServerApiAccess, conversations, crashed, netVars,
                   storeOps, storeLog, histVars, chosen, selOps, readerVars, dialogVars,
                   estimateVars, reset, creates, isAuthenticated>>

\* a reading of the response that trusts its defaults even when the request failed
LatestDefaultsOfFailure(ok, defaults) ==
    IF defaults.present THEN defaults ELSE FALLBACK_DEFAULTS

\* data.defaults || FALLBACK_DEFAULTS; the catch branch uses FALLBACK_DEFAULTS
LatestDefaults(ok, defaults) ==
    IF ok /\ defaults.present THEN defaults ELSE FALLBACK_DEFAULTS

NextCouncil(f, latest) ==
    IF f.isCustomized /\ f.storedCouncil # NullCouncil /\ Len(f.storedCouncil[1]) >= 2
    THEN f.storedCouncil
    ELSE IF HasCouncil(latest) THEN latest.council ELSE FALLBACK_DEFAULTS.council

NextChairman(f, latest) ==
    IF f.isCustomized /\ Truthy(f.storedChairman)
    THEN f.storedChairman
    ELSE IF HasChairman(latest) THEN latest.chairman ELSE FALLBACK_DEFAULTS.chairman

\* fetchModels after its await: the catalog arrived with data.defaults =
\* defaults (ok), or the request failed
FetchSettle(i, ok, defaults) ==
    /\ ~crashed
    /\ i \in DOMAIN fetches
    /\ LET f == fetches[i]
           nextCouncil == NextCouncil(f, LatestDefaults(ok, defaults))
           nextChairman == NextChairman(f, LatestDefaults(ok, defaults))
       IN  /\ localStorage' = IF ~f.isCustomized
                               THEN SyncDefaults(localStorage,
                                                 Defaults(nextCouncil, nextChairman))
                               ELSE localStorage
           /\ config' = [config EXCEPT !.councilModels = nextCouncil,
                                       !.chairmanModel = nextChairman,
                                       !.availableModels = IF ok THEN Catalog ELSE @,
                                       !.defaults = LatestDefaults(ok, defaults)]
    /\ hasServerApiAccess' = ok
    /\ fetches' = RemoveAt(fetches, i)
    /\ lastIssued' = IF i = Len(fetches) /\ ~lastIssued.applied
                 THEN Response(ok, LatestDefaults(ok, defaults))
                 ELSE lastIssued
    /\ UNCHANGED <<currentConversationId, currentConversation, heap, isLoading,
                   settingsOpen, conversations, crashed, netVars, sessionStorage,
                   storeOps, storeLog, histVars, nFetches, chosen, selOps, readerVars,
                   dialogVars, estimateVars, reset, creates, isAuthenticated>>

\* SettingsPanel.handleResetDefaults: configStore.clearAll(), then
\* handleConfigChange({ apiKey: '', councilModels, chairmanModel }) with the
\* defaults the application holds, which writes both through to the store
PanelHandleResetDefaults(cfg, ls, ss) ==
    LET council == cfg.defaults.council
        chairman == IF Truthy(cfg.defaults.chairman) THEN cfg.defaults.chairman ELSE ""
        cleared == ClearAll(ls, ss)
    IN  [config |-> [cfg EXCEPT !.apiKey = "", !.councilModels = council,
                                !.chairmanModel = chairman],
         ls |-> SetChairmanModel(SetCouncilModels(cleared.ls, CurrentCouncil(
                    [councilModels |-> council])), chairman),
         ss |-> cleared.ss]

\* The user presses Reset to Defaults in the settings panel; when the reset
\* empties a non-empty config.apiKey, the effect on [config.apiKey] calls
\* fetchModels, which reads the store as the reset left it.
ResetDefaults ==
    /\ ~crashed
    /\ settingsOpen
    /\ selOps < MaxSelOps
    /\ config.apiKey = "" \/ nFetches < MaxFetches
    /\ LET e == PanelHandleResetDefaults(config, localStorage, sessionStorage)
       IN  /\ config' = e.config
           /\ localStorage' = e.ls
           /\ sessionStorage' = e.ss
           /\ fetches' = IF config.apiKey = "" THEN fetches
                         ELSE Append(fetches, [FetchCapture(e.ls) EXCEPT
                                                  !.after = NoChoice, !.reset = TRUE])
    /\ nFetches' = IF config.apiKey = "" THEN nFetches ELSE nFetches + 1
    /\ lastIssued' = IF config.apiKey = "" THEN lastIssued ELSE NoResponse
    /\ selOps' = selOps + 1
    /\ chosen' = NoChoice
    /\ reset' = TRUE
    /\ UNCHANGED <<currentConversationId, currentConversation, heap, isLoading,
                   settingsOpen, hasServerApiAccess, conversations, crashed, netVars,
                   storeOps, storeLog, histVars, readerVars, dialogVars, estimateVars,
                   creates, isAuthenticated>>

\* The application just mounted on empty storage: fetchModels(config.apiKey)
\* is in flight.
InitSelection ==
    /\ currentConversationId = Null
    /\ currentConversation = NullConv
    /\ heap = <<>>
    /\ isLoading = FALSE
    /\ settingsOpen = FALSE
    /\ conversations = <<>>
    /\ crashed = FALSE
    /\ InitNet
    /\ InitCredentials("", FALSE)
    /\ chosen = NoChoice
    /\ selOps = 0
    /\ InitSession
    /\ fetches = <<FetchCapture(localStorage)>>
    /\ nFetches = 1
    /\ chunks = <<>>
    /\ delivered = <<>>
    /\ stream = NoStream
    /\ InitDialogs
    /\ InitNoInput

\* The user changes the selection and the key while catalog fetches settle.
NextSelection ==
    \/ \E id \in ModelIds \cup {""} : AddCouncilModel(id)
    \/ \E id \in ModelIds : RemoveCouncilModel(id)
    \/ \E id \in ModelIds : ChangeChairmanModel(id)
    \/ \E id \in ModelIds \cup {""} : PanelAddModel(id)
    \/ \E id \in ModelIds : PanelRemoveModel(id)
    \/ \E id \in ModelIds : PanelChairmanChange(id)
    \/ OpenSettings
    \/ CloseSettings
    \/ \E key \in ApiKeys \cup {""} : SaveKey(key)
    \/ \E i \in 1..MaxFetches, ok \in BOOLEAN, defaults \in ServerDefaults :
           FetchSettle(i, ok, defaults)

SpecSelection == InitSelection /\ [][NextSelection]_vars

\* The application just mounted, on empty storage or on a selection the user
\* customized in an earlier session: fetchModels(config.apiKey) is in flight.
InitMounted ==
    /\ currentConversationId = Null
    /\ currentConversation = NullConv
    /\ heap = <<>>
    /\ isLoading = FALSE
    /\ settingsOpen = FALSE
    /\ conversations = <<>>
    /\ crashed = FALSE
    /\ InitNet
    /\ localStorage \in
          {EmptyStorage,
           SetChairmanModel(SetCouncilModels(SetModelsCustomized(EmptyStorage, TRUE),
                                             <<"a", "c">>), "c")}
    /\ sessionStorage = EmptyStorage
    /\ storeOps = 0
    /\ storeLog = <<>>
    /\ config = InitialConfig(localStorage, sessionStorage)
    /\ hasServerApiAccess = FALSE
    /\ chosen = IF IsModelsCustomized(localStorage)
                THEN [council |-> Council(<<"a", "c">>), chairman |-> "c"]
                ELSE NoChoice
    /\ selOps = 0
    /\ InitSession
    /\ fetches = <<FetchCapture(localStorage)>>
    /\ nFetches = 1
    /\ chunks = <<>>
    /\ delivered = <<>>
    /\ stream = NoStream
    /\ InitDialogs
    /\ InitNoInput

\* The same, with the Reset to Defaults button of the settings panel.
NextCatalog ==
    \/ NextSelection
    \/ ResetDefaults

SpecCatalog == InitMounted /\ [][NextCatalog]_vars

(* ---------------------------- the council handlers alone -------------- *)
\* The catalog is loaded and the council is one the server's defaults gave,
\* of two, three or four members, in memory and in the store; the settings
\* panel is open or closed.
InitCouncil ==
    /\ currentConversationId = Null
    /\ currentConversation = NullConv
    /\ heap = <<>>
    /\ isLoading = FALSE
    /\ settingsOpen \in BOOLEAN
    /\ conversations = <<>>
    /\ crashed = FALSE
    /\ hasServerApiAccess = TRUE
    /\ InitNet
    /\ InitIdle
    /\ sessionStorage = EmptyStorage
    /\ storeOps = 0
    /\ storeLog = <<>>
    /\ \E d \in (ServerDefaults \ {NoDefaults}) \cup {FALLBACK_DEFAULTS} :
          /\ localStorage = SyncDefaults(EmptyStorage, d)
          /\ config = [apiKey |-> "", councilModels |-> d.council,
                       chairmanModel |-> d.chairman, availableModels |-> Catalog,
                       defaults |-> d]

\* Any sequence of addCouncilModel and removeCouncilModel calls, from the
\* chat input and from the settings panel.
NextCouncilOps ==
    \/ \E id \in ModelIds \cup {""} : AddCouncilModel(id)
    \/ \E id \in ModelIds : RemoveCouncilModel(id)
    \/ \E id \in ModelIds \cup {""} : PanelAddModel(id)
    \/ \E id \in ModelIds : PanelRemoveModel(id)

SpecCouncil == InitCouncil /\ [][NextCouncilOps]_vars

(* ---------------------------- the whole store -------------------------- *)
\* Any sequence of calls that write the five keys of the store, and clearAll,
\* on empty storage.
NextWholeStore ==
    \/ StoreSetApiKey("sk1")
    \/ \E val \in BOOLEAN : StoreSetSessionOnly(val)
    \/ StoreSetCouncilModels(<<"a", "b">>)
    \/ StoreSetChairmanModel("a")
    \/ \E value \in BOOLEAN : StoreSetModelsCustomized(value)
    \/ StoreClearAll

SpecWholeStore == InitStore /\ [][NextWholeStore]_vars

(* ---------------------------- logging out ----------------------------- *)
\* handleLogout.  api.clearJWT() removes the login token, which is not one of
\* STORAGE_KEYS; the api object of api.js defines no clearJWT, so the call
\* may instead throw, and then the handler does nothing more.
Logout(threw) ==
    /\ ~crashed
    /\ isAuthenticated
    /\ isAuthenticated' = threw
    /\ conversations' = IF threw THEN conversations ELSE <<>>
    /\ currentConversation' = IF threw THEN currentConversation ELSE NullConv
    /\ currentConversationId' = IF threw THEN currentConversationId ELSE Null
    /\ heap' = Collect(currentConversation', heap)
    /\ UNCHANGED <<isLoading, settingsOpen, hasServerApiAccess, config, crashed, netVars,
                   storeVars, histVars, modelVars, readerVars, dialogVars, estimateVars,
                   lastIssued, reset, creates>>

\* handleLoginSuccess: the login screen reported a login; loadConversations()
LoginSuccess ==
    /\ ~crashed
    /\ ~isAuthenticated
    /\ isAuthenticated' = TRUE
    /\ listReqs' = Min(listReqs + 1, MaxListReqs)
    /\ UNCHANGED <<appVars, sends, loads, nLoads, storeVars, histVars, modelVars,
                   readerVars, dialogVars, estimateVars, lastIssued, reset, creates>>

\* A session with a loaded conversation list and empty storage.
InitLogout ==
    /\ currentConversationId = Null
    /\ currentConversation = NullConv
    /\ heap = <<>>
    /\ isLoading = FALSE
    /\ settingsOpen = FALSE
    /\ conversations = ServerList
    /\ crashed = FALSE
    /\ InitNet
    /\ InitIdle
    /\ InitCredentials("", FALSE)

\* The logged-in user writes the five keys of the store; the user logs out
\* and in again.
NextLogout ==
    \/ isAuthenticated /\ NextWholeStore
    \/ \E threw \in BOOLEAN : Logout(threw)
    \/ LoginSuccess
    \/ \E ok \in BOOLEAN : ListSettle(ok)

SpecLogout == InitLogout /\ [][NextLogout]_vars

(* ---------------------------- rename and delete ------------------------ *)
\* what a fetch settles with: a response status, or a rejection
Statuses == {"200", "404", "405", "500", "rejected"}

\* errorPayload.detail of a response that is not OK
Details == {Undef, "", "Not Found", "Method Not Allowed", "Title is required"}

\* response.ok
IsOk(status) == status = "200"

\* a test of the route that knows 404 only
RouteMissing404Only(status) == status = "404"

\* !response.ok && (response.status === 404 || response.status === 405)
RouteMissing(status) == ~IsOk(status) /\ status \in {"404", "405"}

\* POST .../rename, POST .../delete
ActionRoute(kind) == [method |-> "POST", path |-> kind]

\* PATCH, DELETE on the conversation itself
LegacyRoute(kind) ==
    [method |-> IF kind = "rename" THEN "PATCH" ELSE "DELETE", path |-> ""]

Request(route, status) ==
    [method |-> route.method, path |-> route.path, status |-> status]

RestartMessage(kind) ==
    IF kind = "rename"
    THEN "Rename is not supported by the currently running backend. Restart backend and try again."
    ELSE "Delete is not supported by the currently running backend. Restart backend and try again."

FallbackMessage(kind) ==
    IF kind = "rename" THEN "Failed to rename conversation"
    ELSE "Failed to delete conversation"

\* readErrorDetail(response, fallbackMessage)
ReadErrorDetail(detail, fallbackMessage) ==
    LET d == IF detail # Undef /\ detail # "" THEN detail ELSE fallbackMessage
    IN  IF d = "Not Found"
        THEN "Backend route not found. Restart backend server and try again."
        ELSE IF d = "Method Not Allowed"
        THEN "Route exists but method is unsupported by the running backend. Restart backend server and try again."
        ELSE d

\* what renameConversation / deleteConversation does with its last response
ApiOutcome(kind, status, detail) ==
    IF RouteMissing(status) THEN [ok |-> FALSE, message |-> RestartMessage(kind)]
    ELSE IF ~IsOk(status)
    THEN [ok |-> FALSE, message |-> ReadErrorDetail(detail, FallbackMessage(kind))]
    ELSE [ok |-> TRUE, message |-> ""]

\* setErrorDialog({ title, message: error.message || fallback })
ErrorDialogFor(kind, message) ==
    [title |-> IF kind = "rename" THEN "Rename Failed" ELSE "Delete Failed",
     message |-> IF message # "" THEN message ELSE FallbackMessage(kind)]

\* the record of a call that ended
Ended(ok, message, requests) ==
    [kind |-> call.kind, id |-> call.id, requests |-> requests, ok |-> ok,
     message |-> message]

\* the ids the server deleted: the delete calls whose last response was OK
Deleted(log) ==
    {log[i].id : i \in {j \in DOMAIN log :
        /\ log[j].kind = "delete"
        /\ log[j].requests # <<>>
        /\ IsOk(log[j].requests[Len(log[j].requests)].status)}}

\* what listConversations returns after the deletions
Refreshed(deleted) == SelectSeq(ServerList, LAMBDA c : c.id \notin deleted)

\* handleRenameConversation(id, title): the request to the action route is sent
RenameConversation(id) ==
    /\ ~crashed
    /\ call = NoCall
    /\ Len(callLog) < MaxActions
    /\ call' = [kind |-> "rename", id |-> id, current |-> currentConversationId,
                awaiting |-> "action", requests |-> <<>>]
    /\ UNCHANGED <<appVars, netVars, storeVars, histVars, modelVars, readerVars,
                   errorDialog, pendingDeleteConversation, callLog, estimateVars, sessionVars>>

\* handleDeleteConversation(conversation): the confirmation dialog opens
DeleteConversation(id) ==
    /\ ~crashed
    /\ pendingDeleteConversation = Null
    /\ call = NoCall
    /\ Len(callLog) < MaxActions
    /\ pendingDeleteConversation' = id
    /\ UNCHANGED <<appVars, netVars, storeVars, histVars, modelVars, readerVars,
                   errorDialog, call, callLog, estimateVars, sessionVars>>

\* onCancel of the confirmation dialog
CancelDelete ==
    /\ ~crashed
    /\ pendingDeleteConversation # Null
    /\ call = NoCall
    /\ pendingDeleteConversation' = Null
    /\ UNCHANGED <<appVars, netVars, storeVars, histVars, modelVars, readerVars,
                   errorDialog, call, callLog, estimateVars, sessionVars>>

\* confirmDeleteConversation: the request to the action route is sent
ConfirmDelete ==
    /\ ~crashed
    /\ pendingDeleteConversation # Null
    /\ call = NoCall
    /\ Len(callLog) < MaxActions
    /\ call' = [kind |-> "delete", id |-> pendingDeleteConversation,
                current |-> currentConversationId,
                awaiting |-> "action", requests |-> <<>>]
    /\ UNCHANGED <<appVars, netVars, storeVars, histVars, modelVars, readerVars,
                   errorDialog, pendingDeleteConversation, callLog, estimateVars, sessionVars>>

\* the catch and finally blocks of the two handlers
ActionFailed(message, requests) ==
    /\ errorDialog' = ErrorDialogFor(call.kind, message)
    /\ pendingDeleteConversation' =
          IF call.kind = "delete" THEN Null ELSE pendingDeleteConversation
    /\ callLog' = Append(callLog, Ended(FALSE, message, requests))
    /\ call' = NoCall
    /\ UNCHANGED <<appVars, netVars, storeVars, histVars, modelVars, readerVars, estimateVars, sessionVars>>

\* a fetch of renameConversation / deleteConversation settled
ActionResponse(status, detail) ==
    /\ ~crashed
    /\ call.awaiting \in {"action", "legacy"}
    /\ LET route == IF call.awaiting = "action" THEN ActionRoute(call.kind)
                    ELSE LegacyRoute(call.kind)
           requests == Append(call.requests, Request(route, status))
           outcome == ApiOutcome(call.kind, status, detail)
       IN  IF status = "rejected"
           THEN ActionFailed("Failed to fetch", requests)
           ELSE IF call.awaiting = "action" /\ RouteMissing(status)
           THEN /\ call' = [call EXCEPT !.awaiting = "legacy", !.requests = requests]
                /\ UNCHANGED <<appVars, netVars, storeVars, histVars, modelVars,
                               readerVars, errorDialog, pendingDeleteConversation,
                               callLog, estimateVars, sessionVars>>
           ELSE IF ~outcome.ok
           THEN ActionFailed(outcome.message, requests)
           ELSE IF call.kind = "rename"
           \* the title is set in the list and in the open conversation;
           \* titles are not part of the state
           THEN /\ callLog' = Append(callLog, Ended(TRUE, "", requests))
                /\ call' = NoCall
                /\ UNCHANGED <<appVars, netVars, storeVars, histVars, modelVars,
                               readerVars, errorDialog, pendingDeleteConversation, estimateVars, sessionVars>>
           ELSE /\ call' = [call EXCEPT !.awaiting = "list", !.requests = requests]
                /\ UNCHANGED <<appVars, netVars, storeVars, histVars, modelVars,
                               readerVars, errorDialog, pendingDeleteConversation,
                               callLog, estimateVars, sessionVars>>

\* confirmDeleteConversation after the deletion: api.listConversations()
\* settled; the list is replaced, and when the open conversation was the
\* deleted one the first of the list is selected, which starts its load
ListAfterDelete(ok) ==
    /\ ~crashed
    /\ call.awaiting = "list"
    /\ IF ~ok
       THEN ActionFailed("Failed to list conversations", call.requests)
       ELSE LET refreshed == Refreshed(Deleted(callLog) \cup {call.id})
                nextConversationId == IF refreshed # <<>> THEN refreshed[1].id ELSE Null
                moves == call.current = call.id
            IN  /\ conversations' = refreshed
                /\ currentConversationId' =
                      IF moves THEN nextConversationId ELSE currentConversationId
                /\ currentConversation' =
                      IF moves /\ nextConversationId = Null THEN NullConv
                      ELSE currentConversation
                /\ heap' = Collect(currentConversation', heap)
                /\ loads' = IF currentConversationId' # currentConversationId
                               /\ currentConversationId' # Null
                            THEN Append(loads, currentConversationId') ELSE loads
                /\ nLoads' = nLoads + (Len(loads') - Len(loads))
                /\ pendingDeleteConversation' = Null
                /\ callLog' = Append(callLog, Ended(TRUE, "", call.requests))
                /\ call' = NoCall
                /\ UNCHANGED <<isLoading, settingsOpen, hasServerApiAccess, config,
                               crashed, sends, listReqs, storeVars, histVars,
                               modelVars, readerVars, errorDialog, estimateVars, sessionVars>>

\* onConfirm of the error dialog
DismissError ==
    /\ ~crashed
    /\ errorDialog # NoDialog
    /\ errorDialog' = NoDialog
    /\ UNCHANGED <<appVars, netVars, storeVars, histVars, modelVars, readerVars,
                   pendingDeleteConversation, call, callLog, estimateVars, sessionVars>>

\* A session with the list loaded and conversation A or nothing selected.
InitActions ==
    /\ currentConversationId \in {Null, "A"}
    /\ currentConversation = NullConv
    /\ heap = <<>>
    /\ isLoading = FALSE
    /\ settingsOpen = FALSE
    /\ conversations = ServerList
    /\ crashed = FALSE
    /\ InitNet
    /\ InitIdle
    /\ InitCredentials("sk1", FALSE)

\* Renames and deletions, one call at a time, with every answer of the server.
NextActions ==
    \/ \E id \in ConvIds : RenameConversation(id)
    \/ \E id \in ConvIds : DeleteConversation(id)
    \/ CancelDelete
    \/ ConfirmDelete
    \/ \E status \in Statuses, detail \in Details : ActionResponse(status, detail)
    \/ \E ok \in BOOLEAN : ListAfterDelete(ok)
    \/ DismissError

SpecActions == InitActions /\ [][NextActions]_vars

(* ---------------------------- the cost line ---------------------------- *)
\* councilModels={config.councilModels || []}
CouncilProp(cfg) == IF cfg.councilModels = NullCouncil THEN <<>> ELSE cfg.councilModels[1]

\* onChange of the input box: a character typed at the end
TypeChar(ch) ==
    /\ Len(input) < MaxChars
    /\ input' = Append(input, ch)
    /\ estimate' = Render(input', CouncilProp(config), usdInrRate)
    /\ UNCHANGED <<appVars, netVars, storeVars, histVars, modelVars, readerVars,
                   dialogVars, usdInrRate, sessionVars>>

\* onChange of the input box: the last character deleted
DeleteChar ==
    /\ input # <<>>
    /\ input' = SubSeq(input, 1, Len(input) - 1)
    /\ estimate' = Render(input', CouncilProp(config), usdInrRate)
    /\ UNCHANGED <<appVars, netVars, storeVars, histVars, modelVars, readerVars,
                   dialogVars, usdInrRate, sessionVars>>

\* the councils and the exchange rates of a session
EstimateCouncils ==
    {NullCouncil, Council(<<"a", "b">>), Council(<<"b", "c">>), Council(<<"c", "d">>),
     Council(<<"a", "d">>), Council(<<"a", "b", "c", "d">>)}
Rates == {83, 91}

\* The chat form of a session with any of the councils and rates, the box empty.
InitEstimate ==
    /\ currentConversationId = Null
    /\ currentConversation = NullConv
    /\ heap = <<>>
    /\ isLoading = FALSE
    /\ settingsOpen = FALSE
    /\ conversations = ServerList
    /\ crashed = FALSE
    /\ hasServerApiAccess = TRUE
    /\ localStorage = EmptyStorage
    /\ sessionStorage = EmptyStorage
    /\ storeOps = 0
    /\ storeLog = <<>>
    /\ InitNet
    /\ fetches = <<>>
    /\ nFetches = 0
    /\ chosen = NoChoice
    /\ selOps = 0
    /\ chunks = <<>>
    /\ delivered = <<>>
    /\ stream = NoStream
    /\ InitDialogs
    /\ InitSession
    /\ input = <<>>
    /\ \E council \in EstimateCouncils, rate \in Rates :
          /\ config = [apiKey |-> "", councilModels |-> council, chairmanModel |-> Null,
                       availableModels |-> <<"a", "b", "c">>, defaults |-> NoneYet]
          /\ usdInrRate = rate
          /\ estimate = Render(<<>>, CouncilProp(config), rate)

NextEstimate ==
    \/ \E ch \in Chars : TypeChar(ch)
    \/ DeleteChar

SpecEstimate == InitEstimate /\ [][NextEstimate]_vars

(* ---------------------------- the stream reader ------------------------ *)
\* Text is a sequence of pieces: the two halves of the prefix 'data: ', the
\* braces and the content of a JSON object, other text, and the newline.
\* A chunk boundary can fall between any two pieces.
NewLine == "\n"
EventNames == {"e1", "e2"}

\* the line of a well-formed frame: data: {e}
FrameLine(e) == <<"da", "ta: ", "{", e, "}">>

\* the lines a server can write: frames, a frame whose JSON is cut short, a
\* frame with text after its JSON, a blank line, a line that is no data line
LineShapes ==
    {FrameLine(e) : e \in EventNames}
    \cup {<<"da", "ta: ", "{", "e1">>, <<"da", "ta: ", "{", "e2", "}", "x">>, <<>>, <<"x">>}

StreamInputs == UNION {[1..n -> LineShapes] : n \in 1..MaxLines}

\* the text of a stream: every line followed by a newline
RECURSIVE TextOf(_)
TextOf(lines) ==
    IF lines = <<>> THEN <<>> ELSE lines[1] \o <<NewLine>> \o TextOf(Tail(lines))

\* the text cut after its first c1 and after its first c2 pieces: what the
\* reads return, none of them empty
CutAt(text, c1, c2) ==
    SelectSeq(<<SubSeq(text, 1, c1), SubSeq(text, c1 + 1, c2),
                SubSeq(text, c2 + 1, Len(text))>>,
              LAMBDA piece : piece # <<>>)

\* chunk.split('\n')
RECURSIVE SplitLines(_)
SplitLines(text) ==
    IF \A i \in DOMAIN text : text[i] # NewLine THEN <<text>>
    ELSE LET i == CHOOSE k \in DOMAIN text :
                      text[k] = NewLine /\ \A j \in 1..(k - 1) : text[j] # NewLine
         IN  <<SubSeq(text, 1, i - 1)>> \o SplitLines(SubSeq(text, i + 1, Len(text)))

\* line.startsWith('data: ')
StartsWithData(line) == Len(line) >= 2 /\ line[1] = "da" /\ line[2] = "ta: "

\* line.slice(6)
SliceData(line) == SubSeq(line, 3, Len(line))

\* JSON.parse(data) returns: data is the whole text of one object
EventParses(data) ==
    Len(data) = 3 /\ data[1] = "{" /\ data[2] \in EventNames /\ data[3] = "}"

\* the event JSON.parse(data) returns
EventOf(data) == data[2]

\* for (const line of lines): a data line that parses is passed to onEvent,
\* one that throws is logged, and the loop goes on
RECURSIVE DeliverLines(_)
DeliverLines(lines) ==
    IF lines = <<>> THEN <<>>
    ELSE IF StartsWithData(lines[1]) /\ EventParses(SliceData(lines[1]))
         THEN <<EventOf(SliceData(lines[1]))>> \o DeliverLines(Tail(lines))
         ELSE DeliverLines(Tail(lines))

\* a reader whose loop over the lines of a chunk ends at the first parse
\* failure: the try around the loop, not in it
ProcessChunkAborting(chunk) ==
    LET lines == SplitLines(chunk)
        bad == {i \in DOMAIN lines :
                    StartsWithData(lines[i]) /\ ~EventParses(SliceData(lines[i]))}
        n == IF bad = {} THEN Len(lines)
             ELSE (CHOOSE i \in bad : \A j \in bad : i <= j) - 1
    IN  DeliverLines(SubSeq(lines, 1, n))

\* the events one read passes to onEvent: decode, split, parse line by line
ProcessChunk(chunk) == DeliverLines(SplitLines(chunk))

\* A response whose body is any stream of up to MaxLines lines, cut into
\* up to three reads at any two places.
InitReader ==
    /\ currentConversationId = Null
    /\ currentConversation = NullConv
    /\ heap = <<>>
    /\ isLoading = FALSE
    /\ settingsOpen = FALSE
    /\ conversations = <<>>
    /\ crashed = FALSE
    /\ InitNet
    /\ InitCredentials("", FALSE)
    /\ fetches = <<>>
    /\ nFetches = 0
    /\ chosen = NoChoice
    /\ selOps = 0
    /\ delivered = <<>>
    /\ InitDialogs
    /\ InitSession
    /\ InitNoInput
    /\ \E lines \in StreamInputs :
          \E c1 \in 0..Len(TextOf(lines)) :
             \E c2 \in c1..Len(TextOf(lines)) :
                /\ chunks = CutAt(TextOf(lines), c1, c2)
                /\ stream = [lines |-> lines, chunks |-> chunks]

\* reader.read() resolved with a chunk: its lines are processed
ReadChunk ==
    /\ chunks # <<>>
    /\ delivered' = delivered \o ProcessChunk(chunks[1])
    /\ chunks' = Tail(chunks)
    /\ UNCHANGED <<appVars, netVars, storeVars, histVars, modelVars, stream, dialogVars, estimateVars, sessionVars>>

NextReader == ReadChunk

SpecReader == InitReader /\ [][NextReader]_vars

(* ---------------------------- properties ------------------------------- *)
\* the assistant message that send s created
TurnMessage(s) == heap[turns[s].asst]

Messages == currentConversation.messages

OpenSends == {s \in DOMAIN sends : sends[s].phase \in {"requested", "reading"}}

NoCredential == config.apiKey = "" /\ ~hasServerApiAccess

ErrorFrame == Frame("error", Undef, Undef)

\* C1: when the operations applied to the conversation since sendMessage are
\* exactly the frames stage1_start, stage1_complete(P1), stage2_start,
\* stage2_complete(P2, M), stage3_start, stage3_complete(P3), complete of that
\* send's stream, the assistant message of the turn has stage1 = P1,
\* stage2 = P2, metadata = M, stage3 = P3, no loading flag set, and the busy
\* flag is false.
C1_CompleteTurn ==
    \A s \in DOMAIN turns :
        turns[s].canon = Len(CanonTypes) =>
            /\ TurnMessage(s).stage1 = turns[s].seen.p1
            /\ TurnMessage(s).stage2 = turns[s].seen.p2
            /\ TurnMessage(s).metadata = turns[s].seen.m
            /\ TurnMessage(s).stage3 = turns[s].seen.p3
            /\ TurnMessage(s).loading = Loading(FALSE, FALSE, FALSE)
            /\ ~isLoading

\* a turn completed by the seven frames, with the second stage-1 payload
C1_Witness ==
    \E s \in DOMAIN turns :
        /\ turns[s].canon = Len(CanonTypes)
        /\ turns[s].seen = [p1 |-> "q", p2 |-> "r", m |-> "m", p3 |-> "s"]
        /\ sends[s].phase = "reading"

\* C2: a step that delivers an `error` frame leaves every message object, and
\* so stage1, stage2, metadata and stage3 of the turn's assistant message,
\* as it was, leaves the message list as it was, and ends with the busy flag
\* false.
C2_ErrorFrame ==
    [][\A s \in 1..MaxSends :
          OnEvent(s, ErrorFrame) =>
              /\ heap' = heap
              /\ currentConversation' = currentConversation
              /\ ~isLoading']_vars

\* an `error` frame arrived while stage 2 was running, after stage 1 completed
C2_Witness ==
    \E s \in DOMAIN turns :
        /\ sends[s].errored
        /\ TurnMessage(s).stage1 \in Stage1Payloads
        /\ TurnMessage(s).loading.stage2
        /\ TurnMessage(s).stage2 = Null
        /\ ~isLoading

\* the sequence without its elements in S
Without(seq, S) ==
    LET F[i \in 0..Len(seq)] ==
            IF i = 0 THEN <<>>
            ELSE IF seq[i] \in S THEN F[i - 1] ELSE Append(F[i - 1], seq[i])
    IN  F[Len(seq)]

\* C3: a step in which the streaming request of send s throws removes from
\* the message list the two optimistic messages of that send and no other
\* message, so that what is left is the list as it was before the send, and
\* ends with the busy flag false.
C3_RollbackRestores ==
    [][\A s \in 1..MaxSends :
          (ResponseFail(s) \/ ReadError(s)) =>
              /\ Messages' = Without(Messages, {turns[s].user, turns[s].asst})
              /\ ~isLoading']_vars

\* an assistant message with a loading flag set
InProgress(m) ==
    /\ m.role = "assistant"
    /\ m.loading.present
    /\ (m.loading.stage1 \/ m.loading.stage2 \/ m.loading.stage3)

\* C4: at most one assistant message of the open conversation has a loading
\* flag set.
C4_OneInProgress ==
    Cardinality({i \in DOMAIN Messages : InProgress(heap[Messages[i]])}) <= 1

\* C5: a step that applies a stage event of stream s changes no message
\* object other than the assistant message that send s created.
C5_OwnMessageOnly ==
    [][\A s \in 1..MaxSends, ev \in Frames :
          (ev.type \in StageEventTypes /\ OnEvent(s, ev)) =>
              \A o \in DOMAIN heap : o # turns[s].asst => heap'[o] = heap[o]]_vars

\* C6: at most one streaming request is open (issued, not yet ended or thrown).
C6_OneOpenSend == Cardinality(OpenSends) <= 1

\* C7: once every stream has signalled end-of-data or thrown, the busy flag
\* is false.  (With no stream open nothing but a new send writes the flag,
\* and the form sends only when it is false: a flag that is true here stays true.)
C7_BusyClearedAtEnd ==
    (sends # <<>> /\ OpenSends = {}) => ~isLoading

\* C8 as stated: a call of handleSendMessage with no API key and no server
\* access appends no message, leaves the busy flag, issues no request, and
\* opens the settings panel.
C8_RejectedOpensSettings ==
    [][\A c \in Contents :
          (CallSendMessage(c) /\ NoCredential) =>
              /\ currentConversation' = currentConversation
              /\ heap' = heap
              /\ isLoading' = isLoading
              /\ sends' = sends
              /\ settingsOpen']_vars

\* C8 amended: such a call appends no message, leaves the busy flag and
\* issues no request; it opens the settings panel when a conversation is
\* selected, and changes nothing when none is.
C8_RejectedSend ==
    [][\A c \in Contents :
          (CallSendMessage(c) /\ NoCredential) =>
              /\ currentConversation' = currentConversation
              /\ heap' = heap
              /\ isLoading' = isLoading
              /\ sends' = sends
              /\ currentConversationId # Null => settingsOpen'
              /\ currentConversationId = Null => settingsOpen' = settingsOpen]_vars

\* a rejected call opened the panel: nothing but handleSendMessage opens it here
C8_Witness ==
    /\ sendCalls > 0
    /\ NoCredential
    /\ currentConversationId # Null
    /\ currentConversation # NullConv
    /\ settingsOpen
    /\ sends = <<>>
    /\ ~isLoading

\* C9: a send that the form accepts appends exactly the user message with the
\* given text and then an assistant message with stage1, stage2, stage3 and
\* metadata null and no loading flag set, changes no other message, and sets
\* the busy flag; its stream has delivered no event yet.
C9_AcceptedSend ==
    [][\A c \in Contents :
          Submit(c) =>
              /\ Len(Messages') = Len(Messages) + 2
              /\ SubSeq(Messages', 1, Len(Messages)) = Messages
              /\ \A o \in DOMAIN heap : heap'[o] = heap[o]
              /\ heap'[Messages'[Len(Messages) + 1]].role = "user"
              /\ heap'[Messages'[Len(Messages) + 1]].content = c
              /\ heap'[Messages'[Len(Messages) + 2]].role = "assistant"
              /\ heap'[Messages'[Len(Messages) + 2]].stage1 = Null
              /\ heap'[Messages'[Len(Messages) + 2]].stage2 = Null
              /\ heap'[Messages'[Len(Messages) + 2]].stage3 = Null
              /\ heap'[Messages'[Len(Messages) + 2]].metadata = Null
              /\ heap'[Messages'[Len(Messages) + 2]].loading = Loading(FALSE, FALSE, FALSE)
              /\ isLoading'
              /\ Len(sends') = Len(sends) + 1
              /\ sends'[Len(sends')].phase = "requested"
              /\ sends'[Len(sends')].sent = 0]_vars

\* just after an accepted send of text "y" into a conversation of two messages
C9_Witness ==
    \E s \in DOMAIN turns :
        /\ sends[s].phase = "requested"
        /\ turns[s].canon = 0
        /\ Len(turns[s].base) = 2
        /\ Messages = turns[s].base \o <<turns[s].user, turns[s].asst>>
        /\ heap[turns[s].user].content = "y"
        /\ isLoading

\* C10: the API key is present in at most one of the two tiers.
C10_KeyInOneTier ==
    ~(localStorage["apiKey"] # <<>> /\ sessionStorage["apiKey"] # <<>>)

\* a key moved to the session tier by setSessionOnly(true)
C10_Witness ==
    /\ storeOps >= 2
    /\ sessionStorage["apiKey"] = <<"sk2">>
    /\ localStorage["apiKey"] = <<>>
    /\ localStorage["sessionOnly"] = <<"true">>

\* C11: setSessionOnly(v) on a stored key leaves getApiKey() returning the
\* same value, and afterwards the tier that v makes inactive (the durable
\* tier for v = true, the session tier for v = false) holds no apiKey item.
C11_TierMigration ==
    [][\A v \in BOOLEAN :
          (StoreSetSessionOnly(v) /\ GetApiKey(localStorage, sessionStorage) # "") =>
              /\ GetApiKey(localStorage', sessionStorage')
                    = GetApiKey(localStorage, sessionStorage)
              /\ v => localStorage'["apiKey"] = <<>>
              /\ ~v => sessionStorage'["apiKey"] = <<>>]_vars

\* setSessionOnly(false) found key sk1 in session-only mode and moved it to
\* the durable tier
C11_Witness ==
    /\ storeLog # <<>>
    /\ storeLog[Len(storeLog)].op = "setSessionOnly"
    /\ storeLog[Len(storeLog)].arg = "false"
    /\ storeLog[Len(storeLog)].key = "sk1"
    /\ storeLog[Len(storeLog)].sessionOnly
    /\ localStorage["apiKey"] = <<"sk1">>
    /\ sessionStorage["apiKey"] = <<>>

\* C12: setSessionOnly(v) called right after setSessionOnly(v), or while the
\* stored mode already is v, leaves both tiers exactly as they were.
C12_SessionOnlyIdempotent ==
    [][\A v \in BOOLEAN :
          (/\ StoreSetSessionOnly(v)
           /\ \/ GetItem(localStorage, "sessionOnly") = (IF v THEN "true" ELSE "false")
              \/ /\ storeLog # <<>>
                 /\ storeLog[Len(storeLog)].op = "setSessionOnly"
                 /\ storeLog[Len(storeLog)].arg = (IF v THEN "true" ELSE "false")) =>
              /\ localStorage' = localStorage
              /\ sessionStorage' = sessionStorage]_vars

\* setSessionOnly(true) twice in a row, with key sk2 stored
C12_Witness ==
    /\ Len(storeLog) = 2
    /\ storeLog[1].op = "setSessionOnly" /\ storeLog[1].arg = "true"
    /\ storeLog[2].op = "setSessionOnly" /\ storeLog[2].arg = "true"
    /\ storeLog[1].key = "sk2"
    /\ sessionStorage["apiKey"] = <<"sk2">>

\* C13: syncDefaults(defaults) called while the customized flag is true
\* leaves the durable tier (stored council, stored chairman, the flag and
\* every other item) as it was, for every defaults value.
C13_SyncDefaultsCustomized ==
    [][\A d \in DefaultsInputs :
          (StoreSyncDefaults(d) /\ IsModelsCustomized(localStorage)) =>
              localStorage' = localStorage]_vars

\* syncDefaults with the council b, c, d was called on a customized store
\* that holds the council a, b and the chairman b
C13_Witness ==
    /\ storeLog = <<[op |-> "syncDefaults", arg |-> JsonStringify(<<"b", "c", "d">>),
                     customized |-> TRUE]>>
    /\ GetCouncilModels(localStorage) = Council(<<"a", "b">>)
    /\ GetChairmanModel(localStorage) = "b"
    /\ IsModelsCustomized(localStorage)

\* C14: syncDefaults(defaults) called while the customized flag is not true
\* makes getCouncilModels() return defaults.council and getChairmanModel()
\* return defaults.chairman whatever was stored, and removes the stored
\* council (chairman) when that default is absent (null, undefined, or the
\* empty chairman '').
C14_SyncDefaultsOverwrites ==
    [][\A d \in DefaultsInputs :
          (StoreSyncDefaults(d) /\ ~IsModelsCustomized(localStorage)) =>
              /\ HasCouncil(d) => GetCouncilModels(localStorage') = d.council
              /\ ~HasCouncil(d) => localStorage'["councilModels"] = <<>>
              /\ HasChairman(d) => GetChairmanModel(localStorage') = d.chairman
              /\ ~HasChairman(d) => localStorage'["chairmanModel"] = <<>>]_vars

\* syncDefaults with the council b, c, d and the chairman c was called on a
\* store whose flag was not true, and the store holds them
C14_Witness ==
    /\ storeLog = <<[op |-> "syncDefaults", arg |-> JsonStringify(<<"b", "c", "d">>),
                     customized |-> FALSE]>>
    /\ storeOps >= 3
    /\ localStorage["modelsCustomized"] = <<"false">>
    /\ GetCouncilModels(localStorage) = Council(<<"b", "c", "d">>)
    /\ GetChairmanModel(localStorage) = "c"

\* C15: a catalog fetch that started after the user deliberately changed the
\* council leaves the council unchanged in memory and in storage when it
\* settles, whatever defaults the server returns; likewise for the chairman.
C15_ChoiceSurvivesFetch ==
    [][\A i \in 1..MaxFetches, ok \in BOOLEAN, d \in ServerDefaults :
          FetchSettle(i, ok, d) =>
              /\ fetches[i].after.council # NullCouncil =>
                    /\ config'.councilModels = config.councilModels
                    /\ localStorage'["councilModels"] = localStorage["councilModels"]
              /\ fetches[i].after.chairman # Null =>
                    /\ config'.chairmanModel = config.chairmanModel
                    /\ localStorage'["chairmanModel"] = localStorage["chairmanModel"]]_vars

\* C16: each accepted call of addCouncilModel, removeCouncilModel or
\* setChairman leaves the customized flag true and what it wrote to the
\* store equal to what it wrote to memory (the council for the first two,
\* the chairman for the third), and touches the other of the two neither in
\* the store nor in memory.
C16_WriteThrough ==
    [][\A id \in ModelIds :
          /\ ((AddCouncilModel(id) /\ AddAccepted(config, id))
               \/ (RemoveCouncilModel(id) /\ RemoveAccepted(config, id))) =>
                 /\ IsModelsCustomized(localStorage')
                 /\ GetCouncilModels(localStorage') = config'.councilModels
                 /\ config'.councilModels # NullCouncil
                 /\ localStorage'["chairmanModel"] = localStorage["chairmanModel"]
                 /\ config'.chairmanModel = config.chairmanModel
          /\ ChangeChairmanModel(id) =>
                 /\ IsModelsCustomized(localStorage')
                 /\ GetChairmanModel(localStorage') = config'.chairmanModel
                 /\ config'.chairmanModel = id
                 /\ localStorage'["councilModels"] = localStorage["councilModels"]
                 /\ config'.councilModels = config.councilModels]_vars

\* the chat input added d to the default council a, b while the store was
\* not customized, and then the chairman was set to c
C16_Witness ==
    /\ selOps = 2
    /\ chosen = [council |-> Council(<<"a", "b", "d">>), chairman |-> "c"]
    /\ config.councilModels = Council(<<"a", "b", "d">>)
    /\ config.chairmanModel = "c"
    /\ IsModelsCustomized(localStorage)
    /\ ~settingsOpen
    /\ fetches = <<>>

\* the council has at least two members in memory and in the store
AtLeastTwo ==
    /\ Len(CurrentCouncil(config)) >= 2
    /\ GetCouncilModels(localStorage) # NullCouncil
    /\ Len(GetCouncilModels(localStorage)[1]) >= 2

\* C17: from a council of at least two members, after any sequence of
\* addCouncilModel and removeCouncilModel calls the council still has at least
\* two members in memory and in the store, and a removal that would leave
\* fewer than two changes neither and raises no error.
C17_CouncilMinimum ==
    /\ []AtLeastTwo
    /\ [][\A id \in ModelIds :
             ((RemoveCouncilModel(id) \/ PanelRemoveModel(id))
                 /\ Len(FilterOut(CurrentCouncil(config), id)) < 2) =>
                 /\ config' = config
                 /\ localStorage' = localStorage
                 /\ ~crashed']_vars

\* after three calls the council the user made has two members, d and a, in
\* memory and in the store: d was added and others were removed
C17_Witness ==
    /\ selOps >= 3
    /\ config.councilModels = Council(<<"d", "a">>)
    /\ chosen.council = config.councilModels
    /\ GetCouncilModels(localStorage) = config.councilModels

\* C18: removeCouncilModel on a council of two is a no-op for every model id
\* passed, member or not: the in-memory council, the stored council and the
\* customized flag are unchanged; on a council of three with a member id the
\* council becomes the other two members.
C18_RemoveOnTwoAndThree ==
    [][\A id \in ModelIds :
          RemoveCouncilModel(id) =>
              /\ Len(CurrentCouncil(config)) = 2 =>
                    /\ config'.councilModels = config.councilModels
                    /\ localStorage'["councilModels"] = localStorage["councilModels"]
                    /\ localStorage'["modelsCustomized"] = localStorage["modelsCustomized"]
              /\ (Len(CurrentCouncil(config)) = 3 /\ Includes(CurrentCouncil(config), id)) =>
                    /\ Len(CurrentCouncil(config')) = 2
                    /\ ~Includes(CurrentCouncil(config'), id)
                    /\ \A i \in 1..3 :
                          CurrentCouncil(config)[i] # id =>
                              Includes(CurrentCouncil(config'), CurrentCouncil(config)[i])
                    /\ GetCouncilModels(localStorage') = config'.councilModels]_vars

\* the events of the well-formed frames among the lines, in order
RECURSIVE WellFormedEvents(_)
WellFormedEvents(lines) ==
    IF lines = <<>> THEN <<>>
    ELSE IF \E e \in EventNames : lines[1] = FrameLine(e)
         THEN <<lines[1][4]>> \o WellFormedEvents(Tail(lines))
         ELSE WellFormedEvents(Tail(lines))

\* every read but the last ends with a newline: no line is cut
LineAligned(chunking) ==
    \A i \in 1..(Len(chunking) - 1) : chunking[i][Len(chunking[i])] = NewLine

\* a line that starts with 'data: ' and whose payload is not JSON
Malformed(line) == StartsWithData(line) /\ \A e \in EventNames : line # FrameLine(e)

C20_ChunkingInvariant ==
    chunks = <<>> => delivered = ProcessChunk(TextOf(stream.lines))

\* C21: once the stream is read, the events delivered are exactly those of
\* its well-formed data lines, in stream order, each once, whatever the
\* reads were.
C21_ExactlyTheDataLines ==
    chunks = <<>> => delivered = WellFormedEvents(stream.lines)

\* C22: resetModelCustomization(defaults) leaves isModelsCustomized() false,
\* getCouncilModels() equal to defaults.council and getChairmanModel() equal
\* to defaults.chairman, and removes the stored council (chairman) when that
\* default is absent (null, undefined, or the empty chairman ''), whatever
\* the flag and the stored selection were before.
C22_ResetAppliesDefaults ==
    [][\A d \in DefaultsInputs :
          StoreResetModelCustomization(d) =>
              /\ ~IsModelsCustomized(localStorage')
              /\ HasCouncil(d) => GetCouncilModels(localStorage') = d.council
              /\ ~HasCouncil(d) => localStorage'["councilModels"] = <<>>
              /\ HasChairman(d) => GetChairmanModel(localStorage') = d.chairman
              /\ ~HasChairman(d) => localStorage'["chairmanModel"] = <<>>]_vars

\* resetModelCustomization with the council b, c, d and the chairman c was
\* called on a customized store, and the store holds them with no flag
C22_Witness ==
    /\ storeLog = <<[op |-> "resetModelCustomization",
                     arg |-> JsonStringify(<<"b", "c", "d">>), customized |-> TRUE]>>
    /\ ~IsModelsCustomized(localStorage)
    /\ localStorage["modelsCustomized"] = <<>>
    /\ GetCouncilModels(localStorage) = Council(<<"b", "c", "d">>)
    /\ GetChairmanModel(localStorage) = "c"

\* C23: after clearAll() no key of the store has an item in either tier:
\* getApiKey() is empty, getCouncilModels() and getChairmanModel() are null,
\* isSessionOnly() and isModelsCustomized() are false.
C23_ClearAllEmpties ==
    [][StoreClearAll =>
          /\ StoredKeys(localStorage', sessionStorage') = {}
          /\ GetApiKey(localStorage', sessionStorage') = ""
          /\ GetCouncilModels(localStorage') = NullCouncil
          /\ GetChairmanModel(localStorage') = Null
          /\ ~IsSessionOnly(localStorage')
          /\ ~IsModelsCustomized(localStorage')]_vars

\* clearAll was called on a store that held all five keys, the API key in
\* the session tier, and nothing is left
C23_Witness ==
    /\ storeLog # <<>>
    /\ storeLog[Len(storeLog)].op = "clearAll"
    /\ storeLog[Len(storeLog)].items = STORAGE_KEYS
    /\ storeLog[Len(storeLog)].key = "sk1"
    /\ storeLog[Len(storeLog)].sessionOnly
    /\ StoredKeys(localStorage, sessionStorage) = {}

\* C24: when a send fails (the request or a read of the stream fails), an
\* error dialog naming the failed action is open after the handler's catch.
C24_FailedSendOpensDialog ==
    [][\A s \in 1..MaxSends :
          (ResponseFail(s) \/ ReadError(s)) => errorDialog' # NoDialog]_vars

\* the rename and delete calls that failed, and the dialog each opened
FailedActionOpensDialog ==
    [][(Len(callLog') > Len(callLog) /\ ~callLog'[Len(callLog')].ok) =>
          /\ errorDialog' # NoDialog
          /\ errorDialog'.title =
                (IF callLog'[Len(callLog')].kind = "rename" THEN "Rename Failed"
                 ELSE "Delete Failed")
          /\ errorDialog'.message = callLog'[Len(callLog')].message]_vars

\* the requests of a call follow the fallback rule: the action route first;
\* the legacy route second, exactly when the action route answered 404 or
\* 405; nothing after that
FollowsFallback(kind, requests, ended) ==
    /\ Len(requests) <= 2
    /\ Len(requests) >= 1 =>
          /\ requests[1].method = "POST"
          /\ requests[1].path = kind
    /\ Len(requests) = 2 =>
          /\ requests[1].status \in {"404", "405"}
          /\ requests[2].method = (IF kind = "rename" THEN "PATCH" ELSE "DELETE")
          /\ requests[2].path = ""
    /\ (ended /\ Len(requests) = 1) => requests[1].status \notin {"404", "405"}

\* C30: for rename and for delete, the legacy route (PATCH, resp. DELETE) is
\* requested exactly when the action route (POST .../rename, resp. POST
\* .../delete) answered 404 or 405; a call whose last response is 404 or 405
\* throws the 'not supported by the currently running backend' message of its
\* action; no call issues more than two requests.
C30_LegacyFallback ==
    /\ FollowsFallback(call.kind, call.requests, FALSE)
    /\ (call.awaiting = "action" /\ call.requests # <<>>) => FALSE
    /\ call.awaiting = "legacy" =>
          /\ Len(call.requests) = 1
          /\ call.requests[1].status \in {"404", "405"}
    /\ \A i \in DOMAIN callLog :
          /\ FollowsFallback(callLog[i].kind, callLog[i].requests, TRUE)
          /\ callLog[i].requests # <<>>
          /\ callLog[i].requests[Len(callLog[i].requests)].status \in {"404", "405"} =>
                /\ ~callLog[i].ok
                /\ callLog[i].message =
                      (IF callLog[i].kind = "rename"
                       THEN "Rename is not supported by the currently running backend. Restart backend and try again."
                       ELSE "Delete is not supported by the currently running backend. Restart backend and try again.")

\* a rename whose action route answered 405 and whose PATCH answered 404
\* threw the restart message, and a delete whose action route answered 404
\* went on to DELETE, which succeeded
C30_Witness ==
    /\ Len(callLog) = 2
    /\ callLog[1].kind = "rename"
    /\ Len(callLog[1].requests) = 2
    /\ callLog[1].requests[1].status = "405"
    /\ callLog[1].requests[2].status = "404"
    /\ errorDialog.title = "Rename Failed"
    /\ callLog[2].kind = "delete"
    /\ callLog[2].ok
    /\ callLog[2].requests[1].status = "404"
    /\ callLog[2].requests[2] = [method |-> "DELETE", path |-> "", status |-> "200"]

\* the number of characters of a text without its leading and trailing blanks
TrimmedCount(text) ==
    IF \A i \in DOMAIN text : text[i] = " " THEN 0
    ELSE LET first == CHOOSE i \in DOMAIN text :
                          text[i] # " " /\ \A j \in 1..(i - 1) : text[j] = " "
             last == CHOOSE i \in DOMAIN text :
                          text[i] # " " /\ \A j \in (i + 1)..Len(text) : text[j] = " "
         IN  last - first + 1

\* ceil(n / 4): the least k with 4k >= n
CeilQuarter(n) == CHOOSE k \in 0..n : 4 * k >= n /\ \A j \in 0..(k - 1) : 4 * j < n

\* C25: the token estimate shown for the input is 0 when the trimmed text
\* is empty and max(1, ceil(n / 4)) otherwise, n the trimmed character
\* count, for every text of up to MaxChars characters.
C25_TokenEstimate ==
    LET n == TrimmedCount(input)
    IN  estimate.tokens = (IF n = 0 THEN 0
                           ELSE IF CeilQuarter(n) >= 1 THEN CeilQuarter(n) ELSE 1)

\* a text of nine characters, five of them left by the trim: two tokens
C25_Witness ==
    /\ input = <<" ", " ", "x", " ", "x", "x", "x", " ", " ">>
    /\ estimate.tokens = 2

\* a label is the one the amount calls for: the zero literal for an amount
\* <= 0, the "less than floor" literal below the floor, and above it the
\* amount to the digits shown
LabelMatches(label, amount, floor, unit) ==
    /\ amount <= 0 => label.kind = "zero"
    /\ (0 < amount /\ amount < floor) => (label.kind = "less" /\ label.value = floor)
    /\ amount >= floor =>
          /\ label.kind = "fixed"
          /\ label.value % unit = 0
          /\ 2 * label.value - 2 * amount <= unit
          /\ 2 * amount - 2 * label.value <= unit

\* C26: the dollar amount is the sum over the council models of price times
\* token estimate, a model without a price or not in the catalog counting 0;
\* each cost label is the zero literal when its amount is <= 0 (so whenever
\* the token estimate is 0), the "< floor" literal when 0 < amount < floor
\* (0.0001 dollars, 0.01 rupees), and the fixed-decimal amount otherwise.
C26_CostLabels ==
    LET council == CouncilProp(config)
        usd == estimate.tokens *
                  (5000 * Cardinality({i \in DOMAIN council : council[i] = "a"})
                   + 3 * Cardinality({i \in DOMAIN council : council[i] = "b"}))
    IN  /\ estimate.usd = usd
        /\ LabelMatches(estimate.usdLabel, usd, 10000, 100)
        /\ LabelMatches(estimate.inrLabel, usd * usdInrRate, 1000000, 1000000)
        /\ estimate.tokens = 0 =>
              (estimate.usdLabel.kind = "zero" /\ estimate.inrLabel.kind = "zero")

\* two tokens with the council a, b, c, d: 0.00010006 dollars, shown as
\* 0.000100, and fewer than 0.01 rupees
C26_Witness ==
    /\ estimate.tokens = 2
    /\ config.councilModels = Council(<<"a", "b", "c", "d">>)
    /\ estimate.usd = 10006
    /\ estimate.usdLabel = [kind |-> "fixed", value |-> 10000]
    /\ estimate.inrLabel = [kind |-> "less", value |-> 1000000]

\* C27: a title_complete frame and a frame of unrecognized type leave the
\* conversation, every message object and the busy flag as they were, raise
\* nothing and leave the stream being read, so the frames after them are
\* still applied.
C27_IgnoredFrames ==
    [][\A s \in 1..MaxSends,
          ev \in {Frame("title_complete", Undef, Undef), Frame("other", Undef, Undef)} :
          OnEvent(s, ev) =>
              /\ currentConversation' = currentConversation
              /\ heap' = heap
              /\ isLoading' = isLoading
              /\ crashed' = crashed
              /\ sends'[s].phase = "reading"
              /\ sends'[s].sent = sends[s].sent
              /\ ~sends'[s].errored]_vars

\* a stream delivered a title_complete or unrecognized frame after
\* stage1_start and then stage1_complete, whose result is in the message;
\* the turn is still busy
C27_Witness ==
    \E s \in DOMAIN sends :
        /\ turns[s].ignored
        /\ sends[s].phase = "reading"
        /\ sends[s].sent = 2
        /\ TurnMessage(s).stage1 = "q"
        /\ isLoading

\* C28: applying a stage event leaves the snapshot observed before it as it
\* was: every message object the conversation referenced before the event
\* has the same contents after it.
C28_SnapshotsKept ==
    [][\A s \in 1..MaxSends, ev \in Frames :
          (ev.type \in StageEventTypes /\ OnEvent(s, ev)) =>
              \A i \in DOMAIN currentConversation.messages :
                  heap'[currentConversation.messages[i]] =
                      heap[currentConversation.messages[i]]]_vars

\* a stage result that has been received
Present(v) == v # Null /\ v # Undef

\* C29: with every stream delivering its frames in protocol order, an error
\* frame possible at any point, the assistant message of every turn has in
\* every reachable state at most one loading flag true, stage2 only with
\* stage1, stage3 only with stage2, and no stage with both its result and
\* its loading flag.
C29_TurnMessageStates ==
    \A s \in DOMAIN turns :
        LET m == TurnMessage(s)
        IN  /\ Cardinality({st \in {"stage1", "stage2", "stage3"} : m.loading[st]}) <= 1
            /\ Present(m.stage2) => Present(m.stage1)
            /\ Present(m.stage3) => Present(m.stage2)
            /\ Present(m.stage1) => ~m.loading.stage1
            /\ Present(m.stage2) => ~m.loading.stage2
            /\ Present(m.stage3) => ~m.loading.stage3

ResetUser == reset /\ chosen = NoChoice /\ ~IsModelsCustomized(localStorage)

\* C32: the Reset to Defaults action leaves the customized flag unset and the
\* in-memory council and chairman equal to the defaults of the last catalog
\* response, and every catalog response that arrives with defaults while the
\* user is still a reset user replaces the selection, in memory and in the
\* store, with those defaults.
C32_ResetRidesDefaults ==
    [][/\ (ResetDefaults /\ config.defaults # NoneYet) =>
              /\ ~IsModelsCustomized(localStorage')
              /\ config'.councilModels = config.defaults.council
              /\ config'.chairmanModel = config.defaults.chairman
       /\ \A i \in 1..MaxFetches, d \in ServerDefaults \ {NoDefaults} :
              (FetchSettle(i, TRUE, d) /\ ResetUser) =>
                  /\ config'.councilModels = d.council
                  /\ config'.chairmanModel = d.chairman
                  /\ GetCouncilModels(localStorage') = d.council
                  /\ GetChairmanModel(localStorage') = d.chairman]_vars

\* The part of C32 that holds: the state the reset action leaves, and the
\* responses to the catalog fetches issued after the reset.
ResetThenLaterFetch ==
    [][/\ (ResetDefaults /\ config.defaults # NoneYet) =>
              /\ ~IsModelsCustomized(localStorage')
              /\ config'.councilModels = config.defaults.council
              /\ config'.chairmanModel = config.defaults.chairman
       /\ \A i \in 1..MaxFetches, d \in ServerDefaults \ {NoDefaults} :
              (FetchSettle(i, TRUE, d) /\ ResetUser /\ fetches[i].reset
                  /\ fetches[i].after = NoChoice) =>
                  /\ config'.councilModels = d.council
                  /\ config'.chairmanModel = d.chairman
                  /\ GetCouncilModels(localStorage') = d.council
                  /\ GetChairmanModel(localStorage') = d.chairman]_vars

\* C33: handleLogout leaves no key of the configuration store in either tier.
C33_LogoutClearsStore ==
    [][\A threw \in BOOLEAN :
          Logout(threw) => StoredKeys(localStorage', sessionStorage') = {}]_vars

\* a stored API key is in the tier the session-only flag selects
KeyInSelectedTier(ls, ss) ==
    /\ ls["apiKey"] # <<>> => ~IsSessionOnly(ls)
    /\ ss["apiKey"] # <<>> => IsSessionOnly(ls)

\* C34: after every call of a sequence of setApiKey (non-empty keys),
\* setSessionOnly and clearAll, a stored API key is in sessionStorage when the
\* session-only flag is true and in localStorage otherwise; getApiKey()
\* returns the key just passed to setApiKey, setSessionOnly leaves what it
\* returns unchanged, and after clearAll it returns no key, so that it
\* returns the key passed last to setApiKey since the store was cleared.
C34_KeyFollowsFlag ==
    [][/\ KeyInSelectedTier(localStorage', sessionStorage')
       /\ \A key \in ApiKeys :
              StoreSetApiKey(key) => GetApiKey(localStorage', sessionStorage') = key
       /\ \A val \in BOOLEAN :
              StoreSetSessionOnly(val) =>
                  GetApiKey(localStorage', sessionStorage') =
                      GetApiKey(localStorage, sessionStorage)
       /\ StoreClearAll => GetApiKey(localStorage', sessionStorage') = ""]_vars

\* sk1 was saved, then sk2, then the mode was switched to session-only: the
\* session tier holds sk2 and getApiKey() returns it
C34_Witness ==
    /\ Len(storeLog) = 2
    /\ storeLog[1].op = "setApiKey" /\ storeLog[1].arg = "sk2" /\ storeLog[1].key = "sk1"
    /\ storeLog[2].op = "setSessionOnly" /\ storeLog[2].arg = "true"
    /\ sessionStorage["apiKey"] = <<"sk2">>
    /\ localStorage["apiKey"] = <<>>
    /\ GetApiKey(localStorage, sessionStorage) = "sk2"

\* C35: once no catalog fetch is in flight, the in-memory council and
\* chairman are the council and the chairman held in the durable tier,
\* whatever the order of the fetches' starts and responses and of the
\* selection handlers.
C35_MemoryMatchesStore ==
    fetches = <<>> =>
        /\ config.councilModels = GetCouncilModels(localStorage)
        /\ config.chairmanModel = GetChairmanModel(localStorage)

\* C36: once no catalog fetch is in flight, the server-access flag, the
\* defaults and the list of available models are those of the response to the
\* fetch that was issued last, also when an earlier fetch was answered after it.
C36_LastIssuedWins ==
    (fetches = <<>> /\ lastIssued.applied) =>
        /\ hasServerApiAccess = lastIssued.ok
        /\ config.defaults = lastIssued.defaults
        /\ lastIssued.ok => config.availableModels = Catalog

\* C37: once the loads of conversations selected one after the other have
\* all settled, the conversation displayed is the one selected last: its id
\* is currentConversationId, in whatever order the responses arrived.
C37_DisplayedIsSelected ==
    (loads = <<>> /\ nLoads >= 2 /\ currentConversation # NullConv) =>
        currentConversation.id = currentConversationId

\* the conversations the client created
CreatedConversations == {i \in DOMAIN creates : creates[i].state = "created"}

\* C38: while no message is sent, so that a created conversation stays empty,
\* New Conversation creates at most one conversation, however the clicks and
\* the responses to the create requests interleave.
C38_OneEmptyConversation == Cardinality(CreatedConversations) <= 1

\* the ids of a conversation list
ListedIds(list) == {list[i].id : i \in DOMAIN list}

\* C39: when the delete request of a confirmed delete succeeded, then after
\* the list refresh that follows, whether it succeeded or failed, the deleted
\* conversation is not in the list and is not selected, no error dialog was
\* opened, and the pending-delete marker is cleared.
C39_DeletedIsGone ==
    [][\A ok \in BOOLEAN :
          ListAfterDelete(ok) =>
              /\ call.id \notin ListedIds(conversations')
              /\ currentConversationId' # call.id
              /\ errorDialog' = errorDialog
              /\ pendingDeleteConversation' = Null]_vars

\* The part of C39 that holds: with a list refresh that succeeded; and the
\* pending-delete marker is cleared in either case.
DeletedIsGoneWhenRefreshed ==
    [][/\ ListAfterDelete(TRUE) =>
              /\ call.id \notin ListedIds(conversations')
              /\ currentConversationId' # call.id
              /\ errorDialog' = errorDialog
       /\ \A ok \in BOOLEAN :
              ListAfterDelete(ok) => pendingDeleteConversation' = Null]_vars

====
